---- MODULE Spec2Model ----
(***************************************************************************)
(* A model of the hackclub/news CMS server (src/unnamed/part_000, the      *)
(* fuller main.go): the view/click tracking handlers with their metrics    *)
(* store, the click rate limiter, the session cookie, the TTL response     *)
(* cache behind jsonCached, and the per-email stats stream.                *)
(*                                                                         *)
(* Time is one clock, `now`, in milliseconds.  Every database round trip   *)
(* may fail; the outcome is an input of the step that performs it.         *)
(***************************************************************************)
EXTENDS Integers, Sequences, FiniteSets, TLC

VARIABLES
    now,            \* time.Now() / the metrics DB's NOW(), in ms
    metricsOn,      \* Store.metricsPool != nil
    email_views,    \* rows of the metrics table email_views
    email_link_clicks, \* rows of the metrics table email_link_clicks
    clicks,         \* ClickTracker.clicks: RemoteAddr -> time of last tracked click
    known,          \* session ids already minted or presented (freshness of rand.Read)
    nreq,           \* number of tracking requests started so far
    pc,             \* per view-handler goroutine: position in handleEmailView
    req,            \* per view-handler goroutine: the request being served
    resp,           \* per view-handler goroutine: the response written since the last arrival
    clickResp,      \* the last response written by handleLinkClick
    clickPairs,     \* history: per email, the (session, link_index) pairs inserted
    recTimes,       \* history: per client IP, times of the last two tracked clicks
    subscribers,    \* ViewNotifier.subscribers: email id -> list of channels
    chanBuf,        \* per channel: number of notifications buffered in it
    store,          \* TTLCache.store: cache key -> cacheItem
    dataVer,        \* version of the warehouse and metrics data a build reads
    nread,          \* number of read requests started so far
    cpc,            \* per read goroutine: position in jsonCached
    creq,           \* per read goroutine: the request being served
    cresp,          \* per read goroutine: the response written since the last arrival
    served,         \* history: the 200 responses of the read endpoints
    nstores,        \* history: per request fingerprint, number of Set calls so far
    spc,            \* per stream goroutine: position in handleEmailStatsStream
    semail,         \* per stream goroutine: the email id of its request
    pending,        \* per stream goroutine: the local variable pending
    tickBuf,        \* per stream goroutine: ticks buffered in throttle.C (capacity 1)
    ctxDone,        \* per stream goroutine: r.Context() is cancelled
    closed,         \* per channel: close(ch) was called
    sent,           \* per stream goroutine: number of events written and flushed
    nnotify,        \* number of Notify calls made so far
    recvSince,      \* history: notifications received since the last flush
    winSent,        \* history: updates written since the ticker last fired
    lastFlushN,     \* history: recvSince at the last update
    persisted,      \* per email: number of tracking rows committed so far
    owed,           \* history: per stream, persisted[e] at the last Notify(e) made while subscribed
    sentSeq,        \* history: per stream, persisted[e] when the last event's counts were read
    dropped,        \* history: per stream, persisted[e] at the last Notify(e) that found its buffer full
    nburst,         \* number of notification bursts made so far
    rw,             \* the calls of rewriteEmailLinks made on one document so far
    page,           \* a list call, its result, and the call at its next_offset
    listing,        \* a call of a list handler over a warehouse, and what it returned
    slugged,        \* an email row scanned by ListEmails, and the slug it was given
    cors,           \* a request through the router main() builds, and its CORS headers
    pool,           \* a call of NewStore, and the URL the content pool was configured from
    mu,             \* ViewNotifier.mu: the goroutine holding Lock, those holding RLock
    gpc,            \* per goroutine calling the ViewNotifier: the call and its position
    panicked        \* a send on a closed channel or a second close has happened

trackVars == <<now, metricsOn, email_views, email_link_clicks, clicks,
               known, nreq, pc, req, resp, clickResp, clickPairs, recTimes>>

notifierVars == <<subscribers, chanBuf>>

cacheVars == <<store, dataVer, nread, cpc, creq, cresp, served, nstores>>

streamVars == <<spc, semail, pending, tickBuf, ctxDone, closed, sent, nnotify,
                recvSince, winSent, lastFlushN, persisted, owed, sentSeq, dropped,
                nburst>>

\* the arguments and results of the functions called on their own
fnVars == <<listing, slugged, cors, pool>>

\* the ViewNotifier's lock and the calls in progress on it
lockVars == <<mu, gpc, panicked>>

callVars == <<rw, page, fnVars, lockVars>>

\* what the tracking endpoints leave alone
readVars == <<cacheVars, streamVars, callVars>>

vars == <<trackVars, notifierVars, cacheVars, streamVars, callVars>>

-----------------------------------------------------------------------------
(* Bounds of the model *)

MaxReqs == 2
\* read requests started in one behaviour
MaxReads == 2
\* Notify calls in one behaviour
MaxNotifies == 3
MaxInserts == 1
\* changes of the data behind the read endpoints
MaxVer == 1
\* TTLCache.max, 512 in NewServer, scaled down
CacheMax == 1

(* Program constants *)

ClickGapMs == 100
DedupWindowMs == 300000
SessionBytes == 16
ChanCap == 10
CleanupAgeMs == 60000
CookieMaxAge == 2592000

(* Sample inputs *)

Emails == {"E1", "E2"}
Procs == {"h1", "h2"}
RandomBytes == {"r1", "r2"}
\* clock readings: around the 100 ms click gap and the 5 minute dedup window
ClickTimes == {0, 100, 200, 300000}
ViewTimes == {0, 200000, 300000}
CacheTimes == {0, 20000, 30000, 30001}
WarehouseOpens == [e \in Emails |-> IF e = "E1" THEN 5 ELSE 0]

-----------------------------------------------------------------------------
(* Sessions *)

\* hex.EncodeToString: two hex characters per byte
HexEncode(bytes, n) == [hex |-> bytes, len |-> 2 * n]

generateSessionID(rnd) == HexEncode(rnd, SessionBytes)

\* values a client may present in the _track cookie: ids the server could have
\* minted, and a string it never would
CookieValues == {generateSessionID(r) : r \in RandomBytes} \cup {[hex |-> "junk", len |-> 4]}

\* the request carries no _track cookie (r.Cookie returns http.ErrNoCookie)
Absent == [hex |-> "absent", len |-> 0]

\* the response sets no cookie
NoCookie == [present |-> FALSE, value |-> Absent, maxAge |-> 0, httpOnly |-> FALSE,
             path |-> ""]

\* getOrCreateSession, ignoring the cookie the request carries
AlwaysMintSession(cookie, rnd) ==
    [value |-> generateSessionID(rnd),
     set |-> [present |-> TRUE, value |-> generateSessionID(rnd),
              maxAge |-> CookieMaxAge, httpOnly |-> TRUE, path |-> "/"]]

\* getOrCreateSession: the cookie to use and the Set-Cookie written, if any
getOrCreateSession(cookie, rnd) ==
    IF cookie = Absent
    THEN [value |-> generateSessionID(rnd),
          set |-> [present |-> TRUE, value |-> generateSessionID(rnd),
                   maxAge |-> CookieMaxAge, httpOnly |-> TRUE, path |-> "/"]]
    ELSE [value |-> cookie, set |-> NoCookie]

\* the outcome of rand.Read: bytes whose id has not been seen yet (a 128-bit id
\* does not repeat); which of the unseen ones is immaterial, so the first
FreshRandom ==
    LET unused == {r \in RandomBytes : generateSessionID(r) \notin known} IN
        IF "r1" \in unused THEN {"r1"} ELSE unused

-----------------------------------------------------------------------------
(* Metrics store: views *)

\* SELECT EXISTS(... time > NOW() - INTERVAL '5 minutes') with no window at all
ViewExistsNoWindow(s, e) ==
    \E r \in email_views : r.session_id = s /\ r.email_id = e /\ r.time > now

\* SELECT EXISTS(SELECT 1 FROM email_views WHERE session_id = $1 AND
\*   email_id = $2 AND time > NOW() - INTERVAL '5 minutes')
ViewExists(s, e) ==
    \E r \in email_views :
        r.session_id = s /\ r.email_id = e /\ r.time > now - DedupWindowMs

\* SELECT COUNT(*) in place of COUNT(DISTINCT session_id)
CountAllViews(e, ok) ==
    IF ~metricsOn THEN 0
    ELSE IF ~ok THEN 0
    ELSE Cardinality({x \in email_views : x.email_id = e})

\* the count restricted to the rows of the last 5 minutes
CountRecentViews(e, ok) ==
    IF ~metricsOn THEN 0
    ELSE IF ~ok THEN 0
    ELSE Cardinality({r.session_id : r \in {x \in email_views :
                            x.email_id = e /\ x.time > now - DedupWindowMs}})

\* SELECT COUNT(DISTINCT session_id) FROM email_views WHERE email_id = $1;
\* an error of the query yields 0
GetMetricsViewCount(e, ok) ==
    IF ~metricsOn THEN 0
    ELSE IF ~ok THEN 0
    ELSE Cardinality({r.session_id : r \in {x \in email_views : x.email_id = e}})

\* metrics count plus loops.campaigns.opens; an error of the warehouse read yields 0
GetEmailViewCount(e, mok, wok) ==
    GetMetricsViewCount(e, mok) + (IF wok THEN WarehouseOpens[e] ELSE 0)

-----------------------------------------------------------------------------
(* ViewNotifier *)

StreamIds == {"c1", "c2"}

Range(f) == {f[i] : i \in DOMAIN f}

Subscribed(e) == IF e \in DOMAIN subscribers THEN Range(subscribers[e]) ELSE {}

\* Notify on channels made without a buffer: a send finds no receiver waiting
NotifyBufUnbuffered(e) == chanBuf

\* Notify: a non-blocking send on every channel subscribed to e; a full buffer
\* drops the notification
NotifyBuf(e) ==
    [h \in StreamIds |->
        IF h \in Subscribed(e) /\ chanBuf[h] < ChanCap
        THEN chanBuf[h] + 1 ELSE chanBuf[h]]

\* a handler that never calls Notify
NotifySkipped(e) == UNCHANGED <<chanBuf, subscribers>>

Notify(e) == /\ chanBuf' = NotifyBuf(e)
             /\ UNCHANGED subscribers

-----------------------------------------------------------------------------
(* handleEmailView, one goroutine per request *)

\* no row was inserted
NoViewRow == [seq |-> -1, time |-> 0, session_id |-> Absent, email_id |-> "", chk |-> 0]

IdleReq ==
    [email |-> "", cookie |-> Absent, sid |-> Absent, set |-> NoCookie,
     alone |-> FALSE, before |-> 0, failed |-> FALSE, repeatOf |-> -1, chk |-> 0,
     row |-> NoViewRow, outcome |-> ""]

NoResp ==
    [status |-> 0, views |-> 0, email |-> "", cookie |-> Absent, sid |-> Absent,
     set |-> NoCookie, alone |-> FALSE, before |-> 0, failed |-> FALSE,
     repeatOf |-> -1, row |-> NoViewRow, outcome |-> "", readOK |-> FALSE]

\* history: has the client of goroutine p just been answered, alone, a cookieless
\* view of e whose cookie it now sends back
IsRepeat(p, e, c) ==
    /\ c # Absent
    /\ resp[p].status = 200
    /\ resp[p].cookie = Absent
    /\ resp[p].set.present
    /\ resp[p].set.value = c
    /\ resp[p].email = e
    /\ resp[p].alone

\* another request starts: the requests in flight and the clients answered so far
\* are no longer alone
Disturb(f, p) == [q \in Procs |-> IF q = p THEN f[q] ELSE [f[q] EXCEPT !.alone = FALSE]]

\* net/http starts a goroutine per request: the first free one of the model
FirstFree(p, at) == at[p] = "idle" /\ (p = "h2" => at["h1"] # "idle")

\* emailID == "": 400 before any tracking
ViewMissingID(p) ==
    /\ FirstFree(p, pc)
    /\ nreq < MaxReqs
    /\ nreq' = nreq + 1
    /\ resp' = [q \in Procs |-> IF q = p THEN [NoResp EXCEPT !.status = 400] ELSE NoResp]
    /\ UNCHANGED <<now, metricsOn, email_views, email_link_clicks, clicks,
                   known, pc, req, clickResp, clickPairs, recTimes, notifierVars>>
    /\ UNCHANGED readVars

\* the request arrives: cookie := getOrCreateSession(w, r)
ViewBegin(p, e, c, rnd) ==
    /\ FirstFree(p, pc)
    /\ nreq < MaxReqs
    /\ c = Absent => rnd \in FreshRandom
    /\ LET sess == getOrCreateSession(c, rnd) IN
        /\ known' = known \cup {sess.value}
        /\ req' = [Disturb(req, p) EXCEPT ![p] =
                      [IdleReq EXCEPT !.email = e, !.cookie = c, !.sid = sess.value,
                                      !.set = sess.set,
                                      !.alone = \A q \in Procs \ {p} : pc[q] = "idle",
                                      !.before = GetEmailViewCount(e, TRUE, TRUE),
                                      !.failed = IsRepeat(p, e, c) /\ resp[p].failed,
                                      !.repeatOf = IF IsRepeat(p, e, c)
                                                   THEN resp[p].views ELSE -1]]
    /\ resp' = [q \in Procs |-> NoResp]
    /\ pc' = [pc EXCEPT ![p] = "select"]
    /\ nreq' = nreq + 1
    /\ UNCHANGED <<now, metricsOn, email_views, email_link_clicks, clicks,
                   clickResp, clickPairs, recTimes, notifierVars>>
    /\ UNCHANGED readVars

\* TrackEmailView up to the existence check; a nil return goes on to Notify
ViewSelect(p, ok) ==
    /\ pc[p] = "select"
    /\ LET r == req[p] IN
        IF ~metricsOn THEN
            /\ req' = [req EXCEPT ![p].outcome = "nometrics"]
            /\ pc' = [pc EXCEPT ![p] = "count"]
            /\ Notify(r.email)
        ELSE IF ~ok THEN
            /\ req' = [req EXCEPT ![p].outcome = "error", ![p].failed = TRUE]
            /\ pc' = [pc EXCEPT ![p] = "count"]
            /\ UNCHANGED notifierVars
        ELSE IF ViewExists(r.sid, r.email) THEN
            /\ req' = [req EXCEPT ![p].outcome = "dedup"]
            /\ pc' = [pc EXCEPT ![p] = "count"]
            /\ Notify(r.email)
        ELSE
            /\ req' = [req EXCEPT ![p].chk = Cardinality(email_views)]
            /\ pc' = [pc EXCEPT ![p] = "insert"]
            /\ UNCHANGED notifierVars
    /\ UNCHANGED <<now, metricsOn, email_views, email_link_clicks, clicks,
                   known, nreq, resp, clickResp, clickPairs, recTimes>>
    /\ UNCHANGED readVars

\* TrackEmailView: INSERT INTO email_views (session_id, email_id); time defaults to
\* NOW().  seq and chk are history: the row's rank and the table size its
\* inserter's existence check saw.
ViewInsert(p, ok) ==
    /\ pc[p] = "insert"
    /\ LET r == req[p]
           row == [seq |-> Cardinality(email_views), time |-> now,
                   session_id |-> r.sid, email_id |-> r.email, chk |-> r.chk]
       IN
        IF ok THEN
            /\ email_views' = email_views \cup {row}
            /\ req' = [req EXCEPT ![p].outcome = "inserted", ![p].row = row]
            /\ Notify(r.email)
        ELSE
            /\ req' = [req EXCEPT ![p].outcome = "error", ![p].failed = TRUE]
            /\ UNCHANGED <<email_views, notifierVars>>
    /\ pc' = [pc EXCEPT ![p] = "count"]
    /\ UNCHANGED <<now, metricsOn, email_link_clicks, clicks,
                   known, nreq, resp, clickResp, clickPairs, recTimes>>
    /\ UNCHANGED readVars

\* GetEmailViewCount and the JSON answer {"views": n}
ViewCount(p, mok, wok) ==
    /\ pc[p] = "count"
    /\ LET r == req[p] IN
        resp' = [resp EXCEPT ![p] =
                    [status |-> 200, views |-> GetEmailViewCount(r.email, mok, wok),
                     email |-> r.email, cookie |-> r.cookie, sid |-> r.sid,
                     set |-> r.set, alone |-> r.alone, before |-> r.before,
                     failed |-> r.failed \/ ~mok \/ ~wok, repeatOf |-> r.repeatOf,
                     row |-> r.row, outcome |-> r.outcome,
                     readOK |-> (mok \/ ~metricsOn) /\ wok]]
    /\ pc' = [pc EXCEPT ![p] = "idle"]
    /\ req' = [req EXCEPT ![p] = IdleReq]
    /\ UNCHANGED <<now, metricsOn, email_views, email_link_clicks, clicks,
                   known, nreq, clickResp, clickPairs, recTimes, notifierVars>>
    /\ UNCHANGED readVars

-----------------------------------------------------------------------------
(* Router middleware in front of handleLinkClick *)

TrustedProxies == {"px"}

\* a connection: the TCP peer and the X-Forwarded-For and X-Real-IP headers it
\* sends ("" for none)
ClientConns ==
    {[peer |-> [ip |-> "ip1", port |-> 1000], xff |-> "ip2", xrip |-> "px"],
     [peer |-> [ip |-> "ip1", port |-> 1001], xff |-> "", xrip |-> ""],
     [peer |-> [ip |-> "px", port |-> 1000], xff |-> "ip2", xrip |-> ""]}

\* the IP address of the client behind a connection
ClientIP(conn) ==
    IF conn.peer.ip \in TrustedProxies /\ conn.xff # "" THEN conn.xff ELSE conn.peer.ip

ClientIPs == {ClientIP(conn) : conn \in ClientConns}

\* the filter with every peer trusted
trustEveryPeer(peer, hdr) == hdr

\* trustProxyRealIP, for X-Forwarded-For and for X-Real-IP: the header survives
\* only from a trusted peer
trustProxyRealIP(peer, xff) == IF peer.ip \in TrustedProxies THEN xff ELSE ""

\* middleware.RealIP: r.RemoteAddr becomes the forwarded address (which has no
\* port, written as port 0) when the header is there, else stays "ip:port"
RealIP(peer, hdr) == IF hdr # "" THEN [ip |-> hdr, port |-> 0] ELSE peer

\* r.RemoteAddr after the two middlewares; RealIP reads X-Real-IP before
\* X-Forwarded-For
RemoteAddr(conn) ==
    LET xrip == trustProxyRealIP(conn.peer, conn.xrip)
        xff == trustProxyRealIP(conn.peer, conn.xff)
    IN  RealIP(conn.peer, IF xrip # "" THEN xrip ELSE xff)

\* httprate.LimitByIP: the key of a request is the IP of its r.RemoteAddr
KeyByIP(conn) == RemoteAddr(conn).ip

RemoteAddrs == {RemoteAddr(conn) : conn \in ClientConns}

-----------------------------------------------------------------------------
(* ClickTracker *)

\* the ip has no entry in ClickTracker.clicks
NoTime == -1

\* ShouldTrack: never seen, or the last tracked click was more than 100 ms ago
ShouldTrack(key) == clicks[key] = NoTime \/ now - clicks[key] > ClickGapMs

\* cleanup: drop the entries whose last click is more than a minute old
ClickCleanup ==
    /\ \E k \in RemoteAddrs : clicks[k] # NoTime /\ clicks[k] < now - CleanupAgeMs
    /\ clicks' = [k \in RemoteAddrs |->
                    IF clicks[k] # NoTime /\ clicks[k] < now - CleanupAgeMs
                    THEN NoTime ELSE clicks[k]]
    /\ UNCHANGED <<now, metricsOn, email_views, email_link_clicks, known, nreq,
                   pc, req, resp, clickResp, clickPairs, recTimes, notifierVars>>
    /\ UNCHANGED readVars

-----------------------------------------------------------------------------
(* Metrics store: clicks *)

\* SELECT EXISTS(SELECT 1 FROM email_link_clicks WHERE session_id = $1 AND
\*   email_id = $2 AND link_index = $3 AND time > NOW() - INTERVAL '5 minutes')
ClickExists(s, e, i) ==
    \E r \in email_link_clicks :
        /\ r.session_id = s /\ r.email_id = e /\ r.link_index = i
        /\ r.time > now - DedupWindowMs

\* SELECT COUNT(*) in place of COUNT(DISTINCT (session_id, link_index))
CountAllClicks(e, ok) ==
    IF ~metricsOn THEN 0
    ELSE IF ~ok THEN 0
    ELSE Cardinality({r \in email_link_clicks : r.email_id = e})

\* SELECT COUNT(DISTINCT (session_id, link_index)) FROM email_link_clicks
\* WHERE email_id = $1; an error of the query yields 0
GetMetricsClickCount(e, ok) ==
    IF ~metricsOn THEN 0
    ELSE IF ~ok THEN 0
    ELSE Cardinality({<<r.session_id, r.link_index>> :
                        r \in {x \in email_link_clicks : x.email_id = e}})

-----------------------------------------------------------------------------
(* URLs and http.Redirect *)

\* a URL as url.Parse splits it: scheme, host, and the path as its segments
\* (rooted: the path starts with "/")
AbsURL == [scheme |-> "https", host |-> "example.com", rooted |-> FALSE, path |-> <<>>]
RootedURL == [scheme |-> "", host |-> "", rooted |-> TRUE, path |-> <<"about">>]
RelURL == [scheme |-> "", host |-> "", rooted |-> FALSE, path |-> <<"page.html">>]
EmptyURL == [scheme |-> "", host |-> "", rooted |-> FALSE, path |-> <<>>]

RECURSIVE CleanSegs(_, _)
\* path.Clean on the segments of a rooted path
CleanSegs(in, out) ==
    IF in = <<>> THEN out
    ELSE IF Head(in) = "." THEN CleanSegs(Tail(in), out)
    ELSE IF Head(in) = ".."
         THEN CleanSegs(Tail(in), IF out = <<>> THEN out
                                  ELSE SubSeq(out, 1, Len(out) - 1))
    ELSE CleanSegs(Tail(in), Append(out, Head(in)))

\* the directory of the request path /emails/{id}/click/{index}
ClickDir(e) == <<"emails", e, "click">>

\* http.Redirect's Location: a URL with neither scheme nor host is made an
\* absolute path, relative to the directory of the request path, and cleaned
Redirect(u, olddir) ==
    IF u.scheme = "" /\ u.host = ""
    THEN [scheme |-> "", host |-> "", rooted |-> TRUE,
          path |-> CleanSegs(IF u.rooted THEN u.path ELSE olddir \o u.path, <<>>)]
    ELSE u

-----------------------------------------------------------------------------
(* handleLinkClick *)

\* the tracking links of the sample emails: E1 has two anchors, E2 one
ClickLinks ==
    {[email |-> "E1", index |-> "0", url |-> AbsURL],
     [email |-> "E1", index |-> "+1", url |-> RelURL],
     [email |-> "E2", index |-> "0", url |-> RootedURL]}

\* strconv.Atoi on the index strings of the model
AtoiOK(s) == s \in {"+1"} \cup {ToString(n) : n \in 0..9}

Atoi(s) == IF s = "+1" THEN 1 ELSE CHOOSE n \in 0..9 : ToString(n) = s

NoClickRow == [seq |-> -1, time |-> 0, session_id |-> Absent, email_id |-> "",
               link_url |-> EmptyURL, link_index |-> 0]

NoClickResp ==
    [status |-> 0, location |-> EmptyURL, email |-> "", index |-> "", url |-> EmptyURL,
     cookie |-> Absent, sid |-> Absent, set |-> NoCookie, outcome |-> "",
     row |-> NoClickRow,
     conn |-> [peer |-> [ip |-> "", port |-> 0], xff |-> "", xrip |-> ""],
     clientIP |-> [ip |-> "", port |-> 0]]

\* requests that fail the parameter checks
BadClickInputs ==
    {[email |-> "", index |-> "0", url |-> AbsURL],
     [email |-> "E1", index |-> "", url |-> AbsURL],
     [email |-> "E1", index |-> "0", url |-> EmptyURL],
     [email |-> "E1", index |-> "x", url |-> AbsURL]}

\* missing parameters or an index that does not parse: 400, before any tracking
ClickBadRequest(b) ==
    /\ nreq < MaxReqs
    /\ nreq' = nreq + 1
    /\ b.email = "" \/ b.index = "" \/ b.url = EmptyURL \/ ~AtoiOK(b.index)
    /\ clickResp' = [NoClickResp EXCEPT !.status = 400, !.email = b.email,
                                        !.index = b.index, !.url = b.url]
    /\ UNCHANGED <<now, metricsOn, email_views, email_link_clicks, clicks,
                   known, pc, req, resp, clickPairs, recTimes, notifierVars>>
    /\ UNCHANGED readVars

\* the whole handler for a request that passes the parameter checks; db is the
\* outcome of TrackLinkClick's round trips
Click(conn, e, idx, u, c, rnd, db) ==
    /\ nreq < MaxReqs
    /\ nreq' = nreq + 1
    /\ e # "" /\ idx # "" /\ u # EmptyURL /\ AtoiOK(idx)
    /\ c = Absent => rnd \in FreshRandom
    /\ LET sess == getOrCreateSession(c, rnd)
           clientIP == RemoteAddr(conn)
           shouldTrack == ShouldTrack(clientIP)
           outcome == IF ~shouldTrack THEN "limited"
                      ELSE IF ~metricsOn THEN "nometrics"
                      ELSE IF db = "selerr" THEN "error"
                      ELSE IF ClickExists(sess.value, e, Atoi(idx)) THEN "dedup"
                      ELSE IF db = "inserr" THEN "error"
                      ELSE "inserted"
           row == [seq |-> Cardinality(email_link_clicks), time |-> now,
                   session_id |-> sess.value, email_id |-> e, link_url |-> u,
                   link_index |-> Atoi(idx)]
       IN
        /\ known' = known \cup {sess.value}
        /\ clicks' = IF shouldTrack THEN [clicks EXCEPT ![clientIP] = now] ELSE clicks
        /\ recTimes' = IF shouldTrack
                       THEN [recTimes EXCEPT ![ClientIP(conn)] = <<@[2], now>>]
                       ELSE recTimes
        /\ email_link_clicks' = IF outcome = "inserted"
                                THEN email_link_clicks \cup {row}
                                ELSE email_link_clicks
        /\ clickPairs' = IF outcome = "inserted"
                         THEN [clickPairs EXCEPT ![e] = @ \cup {<<sess.value, Atoi(idx)>>}]
                         ELSE clickPairs
        /\ IF outcome \in {"nometrics", "dedup", "inserted"}
           THEN Notify(e)
           ELSE UNCHANGED notifierVars
        /\ clickResp' = [status |-> 302, location |-> Redirect(u, ClickDir(e)),
                         email |-> e, index |-> idx, url |-> u, cookie |-> c,
                         sid |-> sess.value, set |-> sess.set, outcome |-> outcome,
                         row |-> IF outcome = "inserted" THEN row ELSE NoClickRow,
                         conn |-> conn, clientIP |-> clientIP]
    /\ UNCHANGED <<now, metricsOn, email_views, pc, req, resp>>
    /\ UNCHANGED readVars

-----------------------------------------------------------------------------
(* The clock *)

Tick(t) ==
    /\ t > now
    /\ now' = t
    /\ UNCHANGED <<metricsOn, email_views, email_link_clicks, clicks, known, nreq,
                   pc, req, resp, clickResp, clickPairs, recTimes, notifierVars>>
    /\ UNCHANGED readVars

-----------------------------------------------------------------------------
(* rewriteEmailLinks *)

\* A string is a sequence of atoms: a word of characters that url.QueryEscape
\* leaves alone, or one single other character.  A document is the sequence
\* of its <a> elements in document order, each with the text of its href
\* attribute as written in the HTML, or without the attribute.

MaxAnchors == 3

Anchor(h) == [has |-> TRUE, href |-> h]
NoHref == [has |-> FALSE, href |-> <<>>]

HrefSamples ==
    {<<"https", ":", "/", "/", "a">>,
     <<"https", ":", "/", "/", "b", "?", "x", "=", "1", "&", "y", "=", "2">>,
     <<"mailto", ":", "z", "@", "z">>,
     <<"tel", ":", "1">>,
     <<"#", "top">>,
     <<>>}

Anchors == {Anchor(h) : h \in HrefSamples} \cup {NoHref}

\* the documents of n anchors
Documents(n) == [1..n -> Anchors]

\* url.QueryEscape on one atom: a space becomes "+", another reserved character
\* becomes "%" and its two hex digits, a word stays
EscapeAtom(a) ==
    CASE a = " " -> <<"+">>
      [] a = ":" -> <<"%", "3A">>
      [] a = "/" -> <<"%", "2F">>
      [] a = "#" -> <<"%", "23">>
      [] a = "?" -> <<"%", "3F">>
      [] a = "=" -> <<"%", "3D">>
      [] a = "&" -> <<"%", "26">>
      [] a = "@" -> <<"%", "40">>
      [] a = "%" -> <<"%", "25">>
      [] a = "+" -> <<"%", "2B">>
      [] OTHER -> <<a>>

RECURSIVE QueryEscape(_)
QueryEscape(str) ==
    IF str = <<>> THEN <<>> ELSE EscapeAtom(Head(str)) \o QueryEscape(Tail(str))

\* the HTML parser reads an attribute value: the entity &amp; is an ampersand
UnescapeAttr(str) == [i \in 1..Len(str) |-> IF str[i] = "&amp;" THEN "&" ELSE str[i]]

\* doc.Html() writes an attribute value: an ampersand is written &amp;
EscapeAttr(str) == [i \in 1..Len(str) |-> IF str[i] = "&" THEN "&amp;" ELSE str[i]]

\* goquery.NewDocumentFromReader
ParseHTML(html) ==
    [i \in 1..Len(html) |->
        IF html[i].has THEN Anchor(UnescapeAttr(html[i].href)) ELSE html[i]]

\* doc.Html()
RenderHTML(doc) ==
    [i \in 1..Len(doc) |->
        IF doc[i].has THEN Anchor(EscapeAttr(doc[i].href)) ELSE doc[i]]

\* strings.HasPrefix
HasPrefix(str, pre) == Len(str) >= Len(pre) /\ SubSeq(str, 1, Len(pre)) = pre

\* the anchors the loop returns from without a change
Skipped(href) ==
    \/ HasPrefix(href, <<"mailto", ":">>)
    \/ HasPrefix(href, <<"#">>)
    \/ HasPrefix(href, <<"tel", ":">>)

\* a request as rewriteEmailLinks sees it: the TCP peer, whether the connection
\* is TLS, the X-Forwarded-Proto header ("" for none) and the Host header.
\* trustProxyRealIP deletes X-Forwarded-For and X-Real-IP only, so
\* X-Forwarded-Proto arrives as the peer sent it.
RewriteReqs ==
    [peer : {"ip1", "px"}, tls : BOOLEAN, xfp : {"", "https", "http"}, host : {"h"}]

\* scheme := "http"; "https" if r.TLS != nil; the header if it is not empty
Scheme(r) == IF r.xfp # "" THEN r.xfp ELSE IF r.tls THEN "https" ELSE "http"

\* fmt.Sprintf("%s://%s", scheme, host)
BaseURL(r) == <<Scheme(r), ":", "/", "/", r.host>>

\* fmt.Sprintf("%s/emails/%s/click/%d?url=%s", baseURL, emailID, linkIndex, url.QueryEscape(href))
NewURL(base, emailID, linkIndex, href) ==
    base \o <<"/", "emails", "/", emailID, "/", "click", "/", ToString(linkIndex),
              "?", "url", "=">> \o QueryEscape(href)

RECURSIVE RewriteFromCountAll(_, _, _, _)
\* the loop with linkIndex advanced at every anchor it visits
RewriteFromCountAll(base, emailID, doc, linkIndex) ==
    IF doc = <<>> THEN <<>>
    ELSE LET a == Head(doc) IN
         IF ~a.has THEN <<a>> \o RewriteFromCountAll(base, emailID, Tail(doc), linkIndex)
         ELSE IF Skipped(a.href)
         THEN <<a>> \o RewriteFromCountAll(base, emailID, Tail(doc), linkIndex + 1)
         ELSE <<Anchor(NewURL(base, emailID, linkIndex, a.href))>>
                \o RewriteFromCountAll(base, emailID, Tail(doc), linkIndex + 1)

RECURSIVE RewriteFrom(_, _, _, _)
\* doc.Find("a[href]").Each(...): the anchors from the current one on, with
\* linkIndex as it stands
RewriteFrom(base, emailID, doc, linkIndex) ==
    IF doc = <<>> THEN <<>>
    ELSE LET a == Head(doc) IN
         IF ~a.has \/ Skipped(a.href)
         THEN <<a>> \o RewriteFrom(base, emailID, Tail(doc), linkIndex)
         ELSE <<Anchor(NewURL(base, emailID, linkIndex, a.href))>>
                \o RewriteFrom(base, emailID, Tail(doc), linkIndex + 1)

rewriteEmailLinks(r, emailID, html) ==
    RenderHTML(RewriteFrom(BaseURL(r), emailID, ParseHTML(html), 0))

\* no call was made yet
NoRewrite == [passes |-> 0, req |-> [peer |-> "", tls |-> FALSE, xfp |-> "", host |-> ""],
              email |-> "", html |-> <<>>, out |-> <<>>, again |-> <<>>]

\* ListEmails calls rewriteEmailLinks(r, id, html) on the HTML of a campaign
RewriteCall(r, emailID, html) ==
    /\ rw.passes = 0
    /\ rw' = [passes |-> 1, req |-> r, email |-> emailID, html |-> html,
              out |-> rewriteEmailLinks(r, emailID, html), again |-> <<>>]
    /\ UNCHANGED <<page, fnVars, lockVars, trackVars, notifierVars, cacheVars, streamVars>>

\* rewriteEmailLinks is run once more, over its own output
RewriteAgain ==
    /\ rw.passes = 1
    /\ rw' = [rw EXCEPT !.passes = 2,
                        !.again = rewriteEmailLinks(rw.req, rw.email, rw.out)]
    /\ UNCHANGED <<page, fnVars, lockVars, trackVars, notifierVars, cacheVars, streamVars>>

-----------------------------------------------------------------------------
(* A client follows a rewritten link *)

\* the hrefs of the emails whose links are followed: absolute, absolute with a
\* query, relative, rooted, empty, and the three prefixes the rewrite skips
FollowHrefs ==
    {<<"https", ":", "/", "/", "a">>,
     <<"https", ":", "/", "/", "b", "?", "x", "=", "1", "&", "y", "=", "2">>,
     <<"page.html">>,
     <<"/", "about">>,
     <<>>,
     <<"mailto", ":", "z", "@", "z">>}

FollowDocs(n) == [1..n -> {Anchor(h) : h \in FollowHrefs}]

\* the character behind the two hex digits of a %XX escape
UnescapeHex(h) ==
    CASE h = "3A" -> ":"
      [] h = "2F" -> "/"
      [] h = "23" -> "#"
      [] h = "3F" -> "?"
      [] h = "3D" -> "="
      [] h = "26" -> "&"
      [] h = "40" -> "@"
      [] h = "25" -> "%"
      [] h = "2B" -> "+"
      [] OTHER -> h

RECURSIVE QueryUnescape(_)
\* url.QueryUnescape, as r.URL.Query() applies it to a value: "+" is a space,
\* "%" and two hex digits are one character
QueryUnescape(str) ==
    IF str = <<>> THEN <<>>
    ELSE IF Head(str) = "+" THEN <<" ">> \o QueryUnescape(Tail(str))
    ELSE IF Head(str) = "%" /\ Len(str) >= 2
         THEN <<UnescapeHex(str[2])>> \o QueryUnescape(SubSeq(str, 3, Len(str)))
    ELSE <<Head(str)>> \o QueryUnescape(Tail(str))

\* strings.Index on atoms: the first position of a, 0 for none
Index(str, a) ==
    IF \E i \in DOMAIN str : str[i] = a
    THEN CHOOSE i \in DOMAIN str : str[i] = a /\ \A j \in 1..(i - 1) : str[j] # a
    ELSE 0

\* the text before the first a
Before(str, a) == IF Index(str, a) = 0 THEN str ELSE SubSeq(str, 1, Index(str, a) - 1)

\* the text after the first a
After(str, a) == IF Index(str, a) = 0 THEN <<>> ELSE SubSeq(str, Index(str, a) + 1, Len(str))

\* a GET of link as the router and the handler see it: the path after
\* scheme://host against the route /emails/{id}/click/{index}, and
\* r.URL.Query().Get("url")
LinkRequest(link) ==
    LET path  == SubSeq(Before(link, "?"), 6, Len(Before(link, "?")))
        pair  == Before(After(link, "?"), "&")
        value == IF HasPrefix(pair, <<"url", "=">>) THEN SubSeq(pair, 3, Len(pair)) ELSE <<>>
    IN  [routed |-> /\ Len(path) = 8
                    /\ SubSeq(path, 1, 3) = <<"/", "emails", "/">>
                    /\ SubSeq(path, 5, 7) = <<"/", "click", "/">>,
         email  |-> IF Len(path) >= 4 THEN path[4] ELSE "",
         index  |-> IF Len(path) >= 8 THEN path[8] ELSE "",
         url    |-> QueryUnescape(value)]

\* the segments of a path, and behind them the query as it was written
Segments(str) == SelectSeq(str, LAMBDA a : a # "/")

\* url.Parse
ParseURL(str) ==
    IF Len(str) >= 2 /\ str[2] = ":"
    THEN LET rest == SubSeq(str, 3, Len(str)) IN
         IF HasPrefix(rest, <<"/", "/">>) /\ Len(rest) >= 3
         THEN [scheme |-> str[1], host |-> rest[3],
               rooted |-> Len(rest) >= 4 /\ rest[4] = "/",
               path |-> Segments(SubSeq(rest, 4, Len(rest)))]
         ELSE [scheme |-> str[1], host |-> "", rooted |-> HasPrefix(rest, <<"/">>),
               path |-> Segments(rest)]
    ELSE [scheme |-> "", host |-> "", rooted |-> HasPrefix(str, <<"/">>),
          path |-> Segments(str)]

\* the client parses the rewritten HTML and sends a GET for the href of its
\* i-th anchor; handleLinkClick answers it
FollowLink(i, conn, c, rnd, db) ==
    /\ rw.passes = 1
    /\ i \in DOMAIN rw.out
    /\ rw.out[i].has
    /\ LET t == LinkRequest(UnescapeAttr(rw.out[i].href))
           b == [email |-> t.email, index |-> t.index, url |-> ParseURL(t.url)]
       IN  /\ t.routed
           /\ \/ ClickBadRequest(b)
              \/ Click(conn, b.email, b.index, b.url, c, rnd, db)

-----------------------------------------------------------------------------
(* ListMailingLists and ListEmails: LIMIT and OFFSET *)

MaxRows == 4
MaxLimit == 3

\* the rows the query selects, in its ORDER BY order, numbered from 1
Rows(n) == [i \in 1..n |-> i]

Min(a, b) == IF a < b THEN a ELSE b

\* ... LIMIT $1 OFFSET $2, then the loop over rows.Next()
Query(rows, limit, offset) == SubSeq(rows, offset + 1, Min(Len(rows), offset + limit))

NoNext == [present |-> FALSE, n |-> 0]

\* next_offset given for every page that is not empty
NextOffsetNonEmpty(out, limit, offset) ==
    IF Len(out) > 0 THEN [present |-> TRUE, n |-> offset + limit] ELSE NoNext

\* var next *int; if len(out) == limit { n := offset + limit; next = &n }
NextOffset(out, limit, offset) ==
    IF Len(out) = limit THEN [present |-> TRUE, n |-> offset + limit] ELSE NoNext

\* what a list function returns: the items and next
Paginate(rows, limit, offset) ==
    LET out == Query(rows, limit, offset)
    IN  [items |-> out, next |-> NextOffset(out, limit, offset)]

\* parseLimitOffset lets through a limit in 1..200 and an offset >= 0
Limits == 1..MaxLimit
Offsets == 0..(MaxRows + 1)

NoPage == [calls |-> 0, fn |-> "", rows |-> <<>>, limit |-> 0, offset |-> 0,
           items |-> <<>>, next |-> NoNext, items2 |-> <<>>, next2 |-> NoNext]

\* a list function is called over a warehouse of n eligible rows
ListCall(fn, n, limit, offset) ==
    /\ page.calls = 0
    /\ LET res == Paginate(Rows(n), limit, offset) IN
        page' = [NoPage EXCEPT !.calls = 1, !.fn = fn, !.rows = Rows(n),
                               !.limit = limit, !.offset = offset,
                               !.items = res.items, !.next = res.next]
    /\ UNCHANGED <<rw, fnVars, lockVars, trackVars, notifierVars, cacheVars, streamVars>>

\* Store.ListMailingLists(ctx, limit, offset)
ListMailingLists(n, limit, offset) == ListCall("ListMailingLists", n, limit, offset)

\* Store.ListEmails(ctx, r, mailingListID, limit, offset)
ListEmails(n, limit, offset) == ListCall("ListEmails", n, limit, offset)

\* the client asks for the page at next_offset, same limit, data unchanged
ListFollow ==
    /\ page.calls = 1
    /\ page.next.present
    /\ LET res == Paginate(page.rows, page.limit, page.next.n) IN
        page' = [page EXCEPT !.calls = 2, !.items2 = res.items, !.next2 = res.next]
    /\ UNCHANGED <<rw, fnVars, lockVars, trackVars, notifierVars, cacheVars, streamVars>>

-----------------------------------------------------------------------------
(* The content warehouse: loops.campaigns and loops.mailing_lists *)

MaxCampaigns == 3

\* loops.mailing_lists.id
MailingListIDs == {"L1", "L2"}

\* a NULL column
Null == "NULL"

\* the (status, mailing_list_id, ai_publishable) a campaign row can have
CampaignKinds ==
    { [status |-> "Sent",  list |-> "L1", publishable |-> "true"],
      [status |-> "Sent",  list |-> "L2", publishable |-> "true"],
      [status |-> "Draft", list |-> "L1", publishable |-> "true"],
      [status |-> "Sent",  list |-> "L1", publishable |-> "false"],
      [status |-> "Sent",  list |-> "L2", publishable |-> Null],
      [status |-> "Sent",  list |-> Null, publishable |-> "true"] }

\* loops.campaigns with n rows; row i was created and sent at time i
Warehouses(n) == [1..n -> CampaignKinds]

\* COUNT(*) of loops.audience_mailing_lists per mailing list
SubscriberCounts == [MailingListIDs -> {0, 2}]

Campaign(wh, i) ==
    [id |-> i, sent_at |-> i, status |-> wh[i].status, list |-> wh[i].list,
     publishable |-> wh[i].publishable]

Campaigns(wh) == {Campaign(wh, i) : i \in 1..Len(wh)}

\* WHERE status = 'Sent' AND mailing_list_id IS NOT NULL (the publishable flag ignored)
SentWithList(c) ==
    /\ c.status = "Sent"
    /\ c.list # Null

\* WHERE status = 'Sent' AND mailing_list_id IS NOT NULL AND ai_publishable = true
Eligible(c) ==
    /\ c.status = "Sent"
    /\ c.list # Null
    /\ c.publishable = "true"

\* ORDER BY c.sent_at DESC NULLS LAST, c.created_at DESC
RECURSIVE OrderBySentAt(_)
OrderBySentAt(S) ==
    IF S = {} THEN <<>>
    ELSE LET first == CHOOSE c \in S : \A d \in S : d.sent_at <= c.sent_at
         IN  <<first>> \o OrderBySentAt(S \ {first})

\* the rows of the ListEmails query before LIMIT and OFFSET; mlid = "" stands
\* for mailingListID == nil || *mailingListID == ""
EmailRows(wh, mlid) ==
    OrderBySentAt({c \in Campaigns(wh) :
                      /\ Eligible(c)
                      /\ c.list \in MailingListIDs
                      /\ (mlid # "" => c.list = mlid)})

\* Store.ListEmails as a function of the warehouse
StoreListEmails(wh, mlid, limit, offset) == Paginate(EmailRows(wh, mlid), limit, offset)

\* the CTE sent_counts
SentOf(wh, l) == {c \in Campaigns(wh) : Eligible(c) /\ c.list = l}

RECURSIVE MaxSentAt(_)
MaxSentAt(S) ==
    LET c == CHOOSE x \in S : TRUE
    IN  IF S = {c} THEN c.sent_at
        ELSE LET m == MaxSentAt(S \ {c}) IN IF c.sent_at > m THEN c.sent_at ELSE m

MailingList(wh, subs, l) ==
    [id |-> l, subscriber_count |-> subs[l],
     sent_email_count |-> Cardinality(SentOf(wh, l)),
     last_sent_at |-> IF SentOf(wh, l) = {} THEN 0 ELSE MaxSentAt(SentOf(wh, l))]

\* ORDER BY (se.last_sent_at IS NULL) ASC, se.last_sent_at DESC NULLS LAST
RECURSIVE OrderByLastSent(_)
OrderByLastSent(S) ==
    IF S = {} THEN <<>>
    ELSE LET first == CHOOSE m \in S : \A d \in S : d.last_sent_at <= m.last_sent_at
         IN  <<first>> \o OrderByLastSent(S \ {first})

\* the rows of the ListMailingLists query before LIMIT and OFFSET
MailingListRows(wh, subs) ==
    OrderByLastSent({MailingList(wh, subs, l) : l \in
                        {x \in MailingListIDs : Cardinality(SentOf(wh, x)) > 0}})

\* Store.ListMailingLists as a function of the warehouse
StoreListMailingLists(wh, subs, limit, offset) ==
    Paginate(MailingListRows(wh, subs), limit, offset)

\* the values of the query parameter limit_per_list
LimitPerListValues == {"", "0", "1", "2", "3", "51", "x"}

\* limitPerList := 1; strconv.Atoi(v) with err == nil && n > 0 && n <= 50
limitPerList(v) ==
    CASE v = "2" -> 2
      [] v = "3" -> 3
      [] OTHER   -> 1

\* the values of the query parameter group_all
GroupAllValues == {"", "true", "1"}

\* ListMailingLists(ctx, 1000, 0)
GroupedListCap == 1000

\* the loop keeping every email fetched, group_all or not
RECURSIVE GroupsFromKeepAll(_, _, _, _, _)
GroupsFromKeepAll(wh, lists, i, groupAll, perList) ==
    IF i > Len(lists) THEN <<>>
    ELSE LET emails == StoreListEmails(wh, lists[i].id, perList, 0).items
             rest   == GroupsFromKeepAll(wh, lists, i + 1, groupAll, perList)
         IN  IF Len(emails) = 0 THEN rest
             ELSE <<[mailing_list |-> lists[i], emails |-> emails]>> \o rest

\* the loop of handleMailingListsEmails over lists[i..]
RECURSIVE GroupsFrom(_, _, _, _, _)
GroupsFrom(wh, lists, i, groupAll, perList) ==
    IF i > Len(lists) THEN <<>>
    ELSE LET ml     == lists[i]
             emails == StoreListEmails(wh, ml.id, perList, 0).items
             rest   == GroupsFrom(wh, lists, i + 1, groupAll, perList)
         IN  IF Len(emails) = 0 THEN rest
             ELSE <<[mailing_list |-> ml,
                     emails |-> IF groupAll THEN emails ELSE SubSeq(emails, 1, 1)]>>
                  \o rest

NoListing == [fn |-> "", wh |-> <<>>, subs |-> [l \in MailingListIDs |-> 0],
              mlid |-> "", limit |-> 0, offset |-> 0, group_all |-> "",
              limit_per_list |-> "", lists |-> <<>>, emails |-> <<>>,
              groups |-> <<>>]

\* GET /mailing_lists
handleMailingLists(wh, subs, limit, offset) ==
    /\ listing.fn = ""
    /\ listing' = [NoListing EXCEPT !.fn = "handleMailingLists", !.wh = wh,
                      !.subs = subs, !.limit = limit, !.offset = offset,
                      !.lists = StoreListMailingLists(wh, subs, limit, offset).items]
    /\ UNCHANGED <<rw, page, slugged, cors, pool, lockVars, trackVars, notifierVars,
                   cacheVars, streamVars>>

\* GET /emails
handleEmails(wh, mlid, limit, offset) ==
    /\ listing.fn = ""
    /\ listing' = [NoListing EXCEPT !.fn = "handleEmails", !.wh = wh,
                      !.mlid = mlid, !.limit = limit, !.offset = offset,
                      !.emails = StoreListEmails(wh, mlid, limit, offset).items]
    /\ UNCHANGED <<rw, page, slugged, cors, pool, lockVars, trackVars, notifierVars,
                   cacheVars, streamVars>>

\* GET /mailing_lists/emails
handleMailingListsEmails(wh, subs, group_all, limit_per_list) ==
    /\ listing.fn = ""
    /\ LET lists == StoreListMailingLists(wh, subs, GroupedListCap, 0).items IN
        listing' = [NoListing EXCEPT !.fn = "handleMailingListsEmails", !.wh = wh,
                       !.subs = subs, !.group_all = group_all,
                       !.limit_per_list = limit_per_list,
                       !.groups = GroupsFrom(wh, lists, 1, group_all = "true",
                                             limitPerList(limit_per_list))]
    /\ UNCHANGED <<rw, page, slugged, cors, pool, lockVars, trackVars, notifierVars,
                   cacheVars, streamVars>>

-----------------------------------------------------------------------------
(* slugify and the slug of an email *)

MaxSubject == 3

\* strings are sequences of characters
SubjectChars == {"A", "b", "1", " ", "&", "/", "+", "-", "!"}

Strings(n) == [1..n -> SubjectChars]

\* " Foo & Bar/baz "
FooAndBarBaz ==
    <<" ", "F", "o", "o", " ", "&", " ", "B", "a", "r", "/", "b", "a", "z", " ">>

\* strings.ToLower on one character
LowerChar(c) ==
    CASE c = "A" -> "a"
      [] c = "B" -> "b"
      [] c = "F" -> "f"
      [] OTHER   -> c

ToLower(s) == [i \in 1..Len(s) |-> LowerChar(s[i])]

\* strings.Trim(s, cut) for a one-character cutset
RECURSIVE TrimLeft(_, _)
TrimLeft(s, c) ==
    IF Len(s) > 0 /\ s[1] = c THEN TrimLeft(Tail(s), c) ELSE s

RECURSIVE TrimRight(_, _)
TrimRight(s, c) ==
    IF Len(s) > 0 /\ s[Len(s)] = c THEN TrimRight(SubSeq(s, 1, Len(s) - 1), c) ELSE s

Trim(s, c) == TrimRight(TrimLeft(s, c), c)

\* strings.TrimSpace (the space is the only white space of SubjectChars)
TrimSpace(s) == Trim(s, " ")

\* strings.ReplaceAll(s, old, new) for a non-empty old
RECURSIVE ReplaceAll(_, _, _)
ReplaceAll(s, old, new) ==
    IF Len(s) < Len(old) THEN s
    ELSE IF SubSeq(s, 1, Len(old)) = old
         THEN new \o ReplaceAll(SubSeq(s, Len(old) + 1, Len(s)), old, new)
         ELSE <<s[1]>> \o ReplaceAll(Tail(s), old, new)

IsAlnum(c) ==
    c \in {"a", "b", "c", "d", "e", "f", "g", "h", "i", "j", "k", "l", "m", "n",
           "o", "p", "q", "r", "s", "t", "u", "v", "w", "x", "y", "z",
           "0", "1", "2", "3", "4", "5", "6", "7", "8", "9"}

\* the loop writing one hyphen for a run of separators
RECURSIVE WriteRunesCollapsed(_)
WriteRunesCollapsed(s) ==
    IF s = <<>> THEN <<>>
    ELSE IF IsAlnum(s[1]) THEN <<s[1]>> \o WriteRunesCollapsed(Tail(s))
    ELSE IF s[1] \in {" ", "-", "_"}
         THEN LET rest == WriteRunesCollapsed(Tail(s))
              IN  IF rest # <<>> /\ rest[1] = "-" THEN rest ELSE <<"-">> \o rest
    ELSE WriteRunesCollapsed(Tail(s))

\* the loop over the runes of s writing to the strings.Builder
RECURSIVE WriteRunes(_)
WriteRunes(s) ==
    IF s = <<>> THEN <<>>
    ELSE (IF IsAlnum(s[1]) THEN <<s[1]>>
          ELSE IF s[1] \in {" ", "-", "_"} THEN <<"-">>
          ELSE <<>>) \o WriteRunes(Tail(s))

\* s after the lowercasing, the trimming and the three replacements
Replaced(s) ==
    ReplaceAll(
        ReplaceAll(
            ReplaceAll(TrimSpace(ToLower(s)), <<"/">>, <<"-">>),
            <<"&">>, <<" ", "a", "n", "d", " ">>),
        <<" ", "+", " ">>, <<" ", "a", "n", "d", " ">>)

\* out := strings.Trim(b.String(), "-")
SlugOut(s) == Trim(WriteRunes(Replaced(s)), "-")

\* hex.EncodeToString(h[:6]) of sha1.Sum([]byte(s)): twelve hex digits that are
\* a function of s, written as one token followed by the hashed text
Sha1Hex6(s) == <<"sha1:">> \o s

slugify(s) ==
    LET out == SlugOut(s)
    IN  IF out = <<>> THEN Sha1Hex6(Replaced(s)) ELSE out

\* c.ai_publishable_slug scanned into aiSlug *string
NilSlug == [nil |-> TRUE, v |-> <<>>]
AiSlugs == {NilSlug, [nil |-> FALSE, v |-> <<>>],
            [nil |-> FALSE, v |-> <<"m", "y", "-", "s", "l", "u", "g">>]}

\* c.id as a string
EmailID(e) == <<e>>

\* the slug ListEmails gives a row
EmailSlug(id, subject, aiSlug) ==
    IF ~aiSlug.nil /\ aiSlug.v # <<>> THEN aiSlug.v
    ELSE LET slug == slugify(subject)
         IN  IF slug = <<>> THEN EmailID(id) ELSE slug

NoSlugged == [done |-> FALSE, id |-> "", subject |-> <<>>, aiSlug |-> NilSlug,
              slug |-> <<>>]

\* ListEmails scans one row and sets e.Slug
ScanEmail(id, subject, aiSlug) ==
    /\ ~slugged.done
    /\ slugged' = [done |-> TRUE, id |-> id, subject |-> subject, aiSlug |-> aiSlug,
                   slug |-> EmailSlug(id, subject, aiSlug)]
    /\ UNCHANGED <<rw, page, listing, cors, pool, lockVars, trackVars, notifierVars,
                   cacheVars, streamVars>>

-----------------------------------------------------------------------------
(* The router's CORS middleware *)

\* os.Getenv("CORS_ALLOWED_ORIGINS") as its comma-separated fields; <<>> is the
\* variable unset or empty
CorsEnvValues ==
    { <<>>,
      <<"https://news.example">>,
      <<"*">>,
      <<" https://a.example", "https://b.example ">> }

\* strings.TrimSpace on a field
TrimSpaceField(f) ==
    CASE f = " https://a.example" -> "https://a.example"
      [] f = "https://b.example " -> "https://b.example"
      [] OTHER -> f

\* the loop over strings.Split(originsStr, ",") in main
AllowedOrigins(env) == [i \in 1..Len(env) |-> TrimSpaceField(env[i])]

\* the Origin header; "" is the header absent
Origins ==
    {"", "http://localhost", "http://localhost:3000", "https://127.0.0.1:8080",
     "http://[::1]:5173", "https://news.example", "https://a.example",
     "https://evil.example", "http://localhost.evil.example"}

\* localhostRegex.MatchString(origin)
IsLocalOrigin(origin) ==
    origin \in {"http://localhost", "http://localhost:3000",
                "https://127.0.0.1:8080", "http://[::1]:5173"}

CorsMethods == {"GET", "OPTIONS"}
CorsPaths == {"/emails", "/healthz"}

NoCors == [done |-> FALSE, env |-> <<>>, origin |-> "", method |-> "", path |-> "",
           status |-> 0, allowOrigin |-> "", allowCredentials |-> ""]

\* what the handlers behind the middleware answer
Downstream(res) == [res EXCEPT !.status = 200]

\* the handler corsMiddleware(allowedOrigins) returns
corsMiddleware(allowedOrigins, res) ==
    LET origin  == res.origin
        allowed == /\ origin # ""
                   /\ \/ IsLocalOrigin(origin)
                      \/ \E i \in 1..Len(allowedOrigins) :
                            origin = allowedOrigins[i] \/ allowedOrigins[i] = "*"
        hdr     == IF allowed
                   THEN [res EXCEPT !.allowOrigin = origin, !.allowCredentials = "true"]
                   ELSE res
    IN  IF res.method = "OPTIONS" THEN [hdr EXCEPT !.status = 204]
        ELSE Downstream(hdr)

\* if len(allowedOrigins) > 0 { r.Use(corsMiddleware(allowedOrigins)) }
Router(allowedOrigins, res) ==
    IF Len(allowedOrigins) > 0 THEN corsMiddleware(allowedOrigins, res)
    ELSE Downstream(res)

\* r.Use(middleware.Heartbeat("/healthz")), ahead of the CORS middleware
Heartbeat(allowedOrigins, res) ==
    IF res.method = "GET" /\ res.path = "/healthz" THEN [res EXCEPT !.status = 200]
    ELSE Router(allowedOrigins, res)

\* one request through the middleware chain built by main
ServeCors(env, origin, method, path) ==
    /\ ~cors.done
    /\ cors' = Heartbeat(AllowedOrigins(env),
                         [NoCors EXCEPT !.done = TRUE, !.env = env, !.origin = origin,
                                        !.method = method, !.path = path])
    /\ UNCHANGED <<rw, page, listing, slugged, pool, lockVars, trackVars, notifierVars,
                   cacheVars, streamVars>>

-----------------------------------------------------------------------------
(* NewStore: the connection URL of the content database *)

MaxParams == 2

\* the key=value pairs a DATABASE_URL can carry after its "?"
DBParams ==
    { [k |-> "sslmode", v |-> "disable"],
      [k |-> "sslmode", v |-> "prefer"],
      [k |-> "sslmode", v |-> "require"],
      [k |-> "sslmode", v |-> "verify-full"],
      [k |-> "application_name", v |-> "news"],
      [k |-> "connect_timeout", v |-> "5"] }

\* DATABASE_URL: postgres://host/db followed by "?" and n pairs joined by "&"
DatabaseURLs(n) == [1..n -> DBParams]

\* os.Getenv("ALLOW_DB_INSECURE")
InsecureValues == {"", "0", "1"}

\* strings.Contains(url, "sslmode=")
ContainsSSLMode(url) == \E i \in 1..Len(url) : url[i].k = "sslmode"

\* strings.Contains(url, "?")
ContainsQuestionMark(url) == Len(url) > 0

\* the URL handed to pgxpool.ParseConfig
ConnURL(insecure, url) ==
    IF insecure # "1" /\ ~ContainsSSLMode(url)
    THEN url \o <<[k |-> "sslmode", v |-> "require"]>>
    ELSE url

\* the sslmode pgxpool.ParseConfig reads from the URL: the first value given,
\* "prefer" when there is none
RECURSIVE SSLMode(_)
SSLMode(url) ==
    IF url = <<>> THEN "prefer"
    ELSE IF url[1].k = "sslmode" THEN url[1].v ELSE SSLMode(Tail(url))

\* the modes under which the connection is refused without TLS
TLSModes == {"require", "verify-ca", "verify-full"}

NoPool == [done |-> FALSE, insecure |-> "", url |-> <<>>, used |-> <<>>,
           sep |-> "", sslmode |-> ""]

\* NewStore(ctx, url, metricsURL) up to pgxpool.ParseConfig(url)
NewStore(insecure, url) ==
    /\ ~pool.done
    /\ LET used == ConnURL(insecure, url) IN
        pool' = [done |-> TRUE, insecure |-> insecure, url |-> url, used |-> used,
                 sep |-> IF used = url THEN ""
                         ELSE IF ContainsQuestionMark(url) THEN "&" ELSE "?",
                 sslmode |-> SSLMode(used)]
    /\ UNCHANGED <<rw, page, listing, slugged, cors, lockVars, trackVars, notifierVars,
                   cacheVars, streamVars>>

-----------------------------------------------------------------------------
(* The goroutines that call the ViewNotifier *)

\* request handlers running at the same time
Goroutines == {"g1", "g2"}

NoCall == [op |-> "", e |-> "", ch |-> "", at |-> "idle", i |-> 0, list |-> <<>>,
           drops |-> 0]

NoLock == [writer |-> "", readers |-> {}]

InitLock ==
    /\ mu = NoLock
    /\ gpc = [g \in Goroutines |-> NoCall]
    /\ panicked = FALSE

-----------------------------------------------------------------------------
(* The functions called on their own: initial state *)

InitCalls ==
    /\ rw = NoRewrite
    /\ page = NoPage
    /\ listing = NoListing
    /\ slugged = NoSlugged
    /\ cors = NoCors
    /\ pool = NoPool
    /\ InitLock

-----------------------------------------------------------------------------
(* Response cache and the read endpoints *)

\* NewTTLCache(30*time.Second, 512): the TTL in ms
CacheTTL == 30000

\* a read request: method, path and raw query, and what rewriteEmailLinks
\* reads of it
ReadReq(path, query, host, tls) ==
    [method |-> "GET", path |-> path, query |-> query,
     peer |-> "ip1", tls |-> tls, xfp |-> "", host |-> host]

\* the read requests of one site
ReadReqs == {ReadReq("/emails", "", "h", FALSE), ReadReq("/emails", "limit=1", "h", FALSE)}

\* one read request as it comes in under two Host headers, with and without TLS
HostReqs == {ReadReq("/emails", "", host, tls) : host \in {"h", "h2"}, tls \in BOOLEAN}

\* r.Method + " " + r.URL.Path + "?" + r.URL.RawQuery
cacheKey(r) == <<r.method, " ", r.path, "?", r.query>>

CacheKeys == {cacheKey(r) : r \in ReadReqs}

\* oldestKey == "": no key chosen
NoKey == <<"", "", "", "", "">>

\* json.MarshalIndent of what build returns for request r over data version
\* ver: ListEmails rewrites the links of each html with the base URL of r
Body(r, ver) == [path |-> r.path, query |-> r.query, ver |-> ver, base |-> BaseURL(r)]

NoBody == [path |-> "", query |-> "", ver |-> -1, base |-> <<>>]

\* sha1.Sum: a 20-byte digest, taken as collision-free
Sha1(payload) == [sha1 |-> payload]

\* `"` + hex.EncodeToString(sum[:]) + `"` with no W/ in front
strongETag(payload) == [prefix |-> "", quoted |-> HexEncode(Sha1(payload), 20)]

\* `W/"` + hex.EncodeToString(sum[:]) + `"`
weakETag(payload) == [prefix |-> "W/", quoted |-> HexEncode(Sha1(payload), 20)]

\* the empty string: a header that is not there
NoETag == [prefix |-> "", quoted |-> HexEncode(Sha1(NoBody), 0)]

\* the If-None-Match values a client of request r sends
MatchInputs(r) ==
    {NoETag, weakETag(Body(r, 0)), strongETag(Body(r, 0))}

NoItem == [present |-> FALSE, val |-> NoBody, etag |-> NoETag, expiresAt |-> 0]

\* TTLCache.Get with no look at expiresAt
GetNoExpiry(key) ==
    LET it == store[key] IN
        IF ~it.present
        THEN [ok |-> FALSE, val |-> NoBody, etag |-> NoETag]
        ELSE [ok |-> TRUE, val |-> it.val, etag |-> it.etag]

\* TTLCache.Get: a miss when the key is not there or time.Now().After(expiresAt)
Get(key) ==
    LET it == store[key] IN
        IF ~it.present \/ now > it.expiresAt
        THEN [ok |-> FALSE, val |-> NoBody, etag |-> NoETag]
        ELSE [ok |-> TRUE, val |-> it.val, etag |-> it.etag]

CacheLen == Cardinality({k \in CacheKeys : store[k].present})

\* TTLCache.Set, the scan at capacity: the keys the loop can end on, those of the
\* earliest expiresAt among the entries with expiresAt.Before(time.Now()); the map's
\* iteration order picks among equals
Oldest ==
    IF CacheLen >= CacheMax
    THEN {k \in CacheKeys :
            /\ store[k].present
            /\ store[k].expiresAt < now
            /\ \A k2 \in CacheKeys :
                  (store[k2].present /\ store[k2].expiresAt < now)
                  => store[k].expiresAt <= store[k2].expiresAt}
    ELSE {}

\* TTLCache.Set: delete oldestKey if one was found, then store the new item
SetStore(key, val, oldestKey) ==
    [k \in CacheKeys |->
        IF k = key
        THEN [present |-> TRUE, val |-> val, etag |-> weakETag(val),
              expiresAt |-> now + CacheTTL]
        ELSE IF k = oldestKey THEN NoItem ELSE store[k]]

\* match != "" && match == etag, comparing the quoted parts only
IfNoneMatchWeak(match, etag) == match # NoETag /\ match.quoted = etag.quoted

\* match != "" && match == etag
IfNoneMatch(match, etag) == match # NoETag /\ match = etag

NoRead == [req |-> [method |-> "", path |-> "", query |-> "", peer |-> "",
                   tls |-> FALSE, xfp |-> "", host |-> ""],
           match |-> NoETag, body |-> NoBody]

NoReadResp ==
    [status |-> 0, req |-> NoRead.req, match |-> NoETag, body |-> NoBody,
     etag |-> NoETag, contentType |-> "", cacheControl |-> "", hit |-> FALSE,
     entryBody |-> NoBody, entryETag |-> NoETag, time |-> 0, latest |-> 0,
     err |-> <<>>, message |-> <<>>]

\* jsonCached, the answer for an entry (body, etag): 304 with nothing, or 200
\* with the three headers and the body
Answer(r, match, body, etag, hit, latest) ==
    IF IfNoneMatch(match, etag)
    THEN [NoReadResp EXCEPT !.status = 304, !.req = r, !.match = match, !.hit = hit,
                            !.entryBody = body, !.entryETag = etag, !.time = now,
                            !.latest = latest]
    ELSE [status |-> 200, req |-> r, match |-> match, body |-> body, etag |-> etag,
          contentType |-> "application/json; charset=utf-8",
          cacheControl |-> "public, max-age=30, stale-while-revalidate=60",
          hit |-> hit, entryBody |-> body, entryETag |-> etag, time |-> now,
          latest |-> latest, err |-> <<>>, message |-> <<>>]

\* history: the 200 responses, each with the number of Set calls for its request
\* so far
Log(a) ==
    IF a.status = 200
    THEN served \cup {[req |-> a.req, body |-> a.body, etag |-> a.etag,
                       time |-> a.time, latest |-> a.latest]}
    ELSE served

\* jsonCached up to the cache lookup: a hit is answered, a miss goes on to build
ReadLookup(p, r, match) ==
    /\ FirstFree(p, cpc)
    /\ nread < MaxReads
    /\ nread' = nread + 1
    /\ LET g == Get(cacheKey(r)) IN
        IF g.ok THEN
            LET a == Answer(r, match, g.val, g.etag, TRUE, nstores[r]) IN
                /\ cresp' = [q \in Procs |-> IF q = p THEN a ELSE NoReadResp]
                /\ served' = Log(a)
                /\ UNCHANGED <<cpc, creq>>
        ELSE
            /\ creq' = [creq EXCEPT ![p] = [req |-> r, match |-> match, body |-> NoBody]]
            /\ cpc' = [cpc EXCEPT ![p] = "build"]
            /\ cresp' = [q \in Procs |-> NoReadResp]
            /\ UNCHANGED served
    /\ UNCHANGED <<store, dataVer, nstores, trackVars, callVars,
                   notifierVars, streamVars>>

\* httpError: 504 for a deadline or network timeout, 500 otherwise
\* an error value is the chain errors.Unwrap walks, outermost first:
\*   "deadline"   context.DeadlineExceeded
\*   "canceled"   context.Canceled
\*   "nettimeout" a net.Error whose Timeout() is true
\*   "netother"   a net.Error whose Timeout() is false
\*   "plain"      any other error without Unwrap
\*   "wrap"       an error that wraps the rest of the chain and is no net.Error
NilError == <<>>

ErrorValue(err) ==
    CASE err = "none"                -> NilError
      [] err = "db"                  -> <<"plain">>
      [] err = "timeout"             -> <<"deadline">>
      [] err = "wrapped deadline"    -> <<"wrap", "deadline">>
      [] err = "net timeout"         -> <<"nettimeout">>
      [] err = "wrapped net timeout" -> <<"wrap", "nettimeout">>
      [] err = "net refused"         -> <<"netother">>
      [] err = "canceled"            -> <<"wrap", "canceled">>

\* the errors the builders return in the cache model
BuildErrors == {"none", "db", "timeout"}

\* the errors a builder can return
AllBuildErrors ==
    BuildErrors \cup {"wrapped deadline", "net timeout", "wrapped net timeout",
                      "net refused", "canceled"}

\* err.Error(): the text of every link of the chain
ErrorText(e) ==
    [i \in 1..Len(e) |->
        CASE e[i] = "deadline"   -> "context deadline exceeded"
          [] e[i] = "canceled"   -> "context canceled"
          [] e[i] = "nettimeout" -> "read tcp 10.0.0.1:5432: i/o timeout"
          [] e[i] = "netother"   -> "dial tcp 10.0.0.1:5432: connection refused"
          [] e[i] = "plain"      -> "ERROR: relation loops.campaigns does not exist"
          [] e[i] = "wrap"       -> "failed to connect to host=db user=news: "]

\* errors.Is(err, context.DeadlineExceeded)
IsDeadlineExceeded(e) == \E i \in 1..Len(e) : e[i] = "deadline"

\* nerr, ok := err.(net.Error); ok && nerr.Timeout()
\* (context.DeadlineExceeded is itself a net.Error that timed out)
IsNetTimeout(e) == Len(e) > 0 /\ e[1] \in {"nettimeout", "deadline"}

\* httpError writing err.Error() to the client
httpErrorVerbose(e) ==
    [status |-> IF IsDeadlineExceeded(e) \/ IsNetTimeout(e) THEN 504 ELSE 500,
     message |-> ErrorText(e)]

\* httpError: the status and the message of apiErr
httpError(e) ==
    CASE IsDeadlineExceeded(e) -> [status |-> 504, message |-> <<"upstream timed out">>]
      [] IsNetTimeout(e)       -> [status |-> 504, message |-> <<"network timeout">>]
      [] OTHER                 -> [status |-> 500, message |-> <<"internal server error">>]

ErrorStatus(err) == httpError(ErrorValue(err)).status

\* a jsonCached that stores an entry for the key before it answers the error
StoreAfterErrorCached(r) == SetStore(cacheKey(r), NoBody, NoKey)

\* the cache after a build or a marshalling that failed: jsonCached returns
\* before s.cache.Set
StoreAfterError(r) == store

\* jsonCached: build() and json.MarshalIndent; an error is answered by httpError
ReadBuild(p, err) ==
    /\ cpc[p] = "build"
    /\ store' = IF err # "none" THEN StoreAfterError(creq[p].req) ELSE store
    /\ IF err # "none" THEN
            /\ cresp' = [cresp EXCEPT ![p] =
                            [NoReadResp EXCEPT !.status = ErrorStatus(err),
                                               !.err = ErrorValue(err),
                                               !.message = httpError(ErrorValue(err)).message,
                                               !.req = creq[p].req,
                                               !.match = creq[p].match,
                                               !.contentType = "application/json; charset=utf-8",
                                               !.time = now]]
            /\ cpc' = [cpc EXCEPT ![p] = "idle"]
            /\ creq' = [creq EXCEPT ![p] = NoRead]
       ELSE
            /\ creq' = [creq EXCEPT ![p].body = Body(creq[p].req, dataVer)]
            /\ cpc' = [cpc EXCEPT ![p] = "set"]
            /\ UNCHANGED cresp
    /\ UNCHANGED <<dataVer, nread, served, nstores, trackVars, callVars,
                   notifierVars, streamVars>>

\* jsonCached from s.cache.Set on: store the entry and answer with it
ReadSet(p) ==
    /\ cpc[p] = "set"
    /\ LET r == creq[p].req
           body == creq[p].body
           a == Answer(r, creq[p].match, body, weakETag(body), FALSE, nstores[r] + 1)
       IN
        /\ \E oldestKey \in (IF Oldest = {} THEN {NoKey} ELSE Oldest) :
              store' = SetStore(cacheKey(r), body, oldestKey)
        /\ nstores' = [nstores EXCEPT ![r] = @ + 1]
        /\ cresp' = [cresp EXCEPT ![p] = a]
        /\ served' = Log(a)
    /\ cpc' = [cpc EXCEPT ![p] = "idle"]
    /\ creq' = [creq EXCEPT ![p] = NoRead]
    /\ UNCHANGED <<dataVer, nread, trackVars, callVars,
                   notifierVars, streamVars>>

\* a tracked view or click, or a change of the warehouse: a later build returns
\* other bytes
DataChange ==
    /\ dataVer < MaxVer
    /\ dataVer' = dataVer + 1
    /\ UNCHANGED <<store, nread, cpc, creq, cresp, served, nstores, trackVars, callVars,
                   notifierVars, streamVars>>

InitCache ==
    /\ store = [k \in CacheKeys |-> NoItem]
    /\ dataVer = 0
    /\ nread = 0
    /\ cpc = [p \in Procs |-> "idle"]
    /\ creq = [p \in Procs |-> NoRead]
    /\ cresp = [p \in Procs |-> NoReadResp]
    /\ served = {}
    /\ nstores = [r \in ReadReqs \cup HostReqs |-> 0]

-----------------------------------------------------------------------------
(* The stats stream *)

\* a goroutine per stream request, each with the channel Subscribe makes for it;
\* the first free one of the model
FirstFreeStream(h) == spc[h] = "idle" /\ (h = "c2" => spc["c1"] # "idle")

\* handleEmailStatsStream with an empty id: 400 and nothing else
StreamMissingID(h) ==
    /\ FirstFreeStream(h)
    /\ spc' = [spc EXCEPT ![h] = "rejected"]
    /\ UNCHANGED <<semail, pending, tickBuf, ctxDone, closed, sent, nnotify,
                   recvSince, winSent, lastFlushN,
                   persisted, owed, sentSeq, dropped, nburst>>
    /\ UNCHANGED <<trackVars, notifierVars, cacheVars, callVars>>

\* ViewNotifier.Subscribe: append a new channel to the email's list
Subscribe(e, ch) ==
    [x \in DOMAIN subscribers \cup {e} |->
        IF x = e
        THEN (IF e \in DOMAIN subscribers THEN Append(subscribers[e], ch) ELSE <<ch>>)
        ELSE subscribers[x]]

RECURSIVE Remove(_, _)
\* append(subs[:i], subs[i+1:]...) for the first i with subs[i] == ch
Remove(subs, ch) ==
    IF subs = <<>> THEN <<>>
    ELSE IF Head(subs) = ch THEN Tail(subs)
    ELSE <<Head(subs)>> \o Remove(Tail(subs), ch)

\* Unsubscribe that keeps the bucket of an email when its list is empty
UnsubscribeLeavesBucket(e, ch) ==
    [x \in DOMAIN subscribers |->
        IF x = e THEN Remove(subscribers[x], ch) ELSE subscribers[x]]

\* Unsubscribe that leaves the list as it is
UnsubscribeKeeps(e, ch) == subscribers

\* ViewNotifier.Unsubscribe: remove the channel, and the bucket when it is empty
Unsubscribe(e, ch) ==
    LET subs == IF e \in DOMAIN subscribers THEN subscribers[e] ELSE <<>>
        left == Remove(subs, ch)
    IN  IF left = <<>>
        THEN [x \in DOMAIN subscribers \ {e} |-> subscribers[x]]
        ELSE [x \in DOMAIN subscribers |-> IF x = e THEN left ELSE subscribers[x]]

\* handleEmailStatsStream up to sendUpdate: the headers, Subscribe, NewTicker
StreamOpen(h, e) ==
    /\ FirstFreeStream(h)
    /\ subscribers' = Subscribe(e, h)
    /\ spc' = [spc EXCEPT ![h] = "snapshot"]
    /\ semail' = [semail EXCEPT ![h] = e]
    /\ UNCHANGED <<chanBuf, pending, tickBuf, ctxDone, closed, sent, nnotify,
                   recvSince, winSent, lastFlushN,
                   persisted, owed, sentSeq, dropped, nburst>>
    /\ UNCHANGED <<trackVars, cacheVars, callVars>>

\* the first sendUpdate(), then var pending bool
StreamSnapshot(h) ==
    /\ spc[h] = "snapshot"
    /\ sent' = [sent EXCEPT ![h] = @ + 1]
    /\ spc' = [spc EXCEPT ![h] = "loop"]
    /\ sentSeq' = [sentSeq EXCEPT ![h] = persisted[semail[h]]]
    /\ UNCHANGED <<semail, pending, tickBuf, ctxDone, closed, nnotify,
                   recvSince, winSent, lastFlushN,
                   persisted, owed, dropped, nburst>>
    /\ UNCHANGED <<trackVars, notifierVars, cacheVars, callVars>>

\* case <-notifyCh with sendUpdate() called at once
StreamRecvNotifyFlush(h) ==
    /\ spc[h] = "loop"
    /\ chanBuf[h] > 0
    /\ chanBuf' = [chanBuf EXCEPT ![h] = @ - 1]
    /\ sent' = [sent EXCEPT ![h] = @ + 1]
    /\ winSent' = [winSent EXCEPT ![h] = @ + 1]
    /\ lastFlushN' = [lastFlushN EXCEPT ![h] = recvSince[h] + 1]
    /\ UNCHANGED <<subscribers, spc, semail, pending, tickBuf, ctxDone, closed,
                   nnotify, recvSince, persisted, owed, sentSeq, dropped, nburst>>
    /\ UNCHANGED <<trackVars, cacheVars, callVars>>

\* case <-notifyCh: pending = true
StreamRecvNotify(h) ==
    /\ spc[h] = "loop"
    /\ chanBuf[h] > 0
    /\ chanBuf' = [chanBuf EXCEPT ![h] = @ - 1]
    /\ pending' = [pending EXCEPT ![h] = TRUE]
    /\ recvSince' = [recvSince EXCEPT ![h] = @ + 1]
    /\ UNCHANGED <<subscribers, spc, semail, tickBuf, ctxDone, closed, sent, nnotify,
                   winSent, lastFlushN, persisted, owed, sentSeq, dropped, nburst>>
    /\ UNCHANGED <<trackVars, cacheVars, callVars>>

\* case <-throttle.C: if pending { sendUpdate(); pending = false }
StreamRecvTick(h) ==
    /\ spc[h] = "loop"
    /\ tickBuf[h] = 1
    /\ tickBuf' = [tickBuf EXCEPT ![h] = 0]
    /\ IF pending[h] THEN
            /\ sent' = [sent EXCEPT ![h] = @ + 1]
            /\ pending' = [pending EXCEPT ![h] = FALSE]
            /\ winSent' = [winSent EXCEPT ![h] = @ + 1]
            /\ lastFlushN' = [lastFlushN EXCEPT ![h] = recvSince[h]]
            /\ recvSince' = [recvSince EXCEPT ![h] = 0]
            /\ sentSeq' = [sentSeq EXCEPT ![h] = persisted[semail[h]]]
       ELSE UNCHANGED <<sent, pending, winSent, lastFlushN, recvSince, sentSeq>>
    /\ UNCHANGED <<spc, semail, ctxDone, closed, nnotify, persisted, owed, dropped,
                   nburst>>
    /\ UNCHANGED <<trackVars, notifierVars, cacheVars, callVars>>

\* the client goes away: net/http cancels the request's context
ClientGone(h) ==
    /\ spc[h] \in {"snapshot", "loop"}
    /\ ~ctxDone[h]
    /\ ctxDone' = [ctxDone EXCEPT ![h] = TRUE]
    /\ UNCHANGED <<spc, semail, pending, tickBuf, closed, sent, nnotify,
                   recvSince, winSent, lastFlushN,
                   persisted, owed, sentSeq, dropped, nburst>>
    /\ UNCHANGED <<trackVars, notifierVars, cacheVars, callVars>>

\* a router without middleware.Timeout: the request's context has no deadline
TimeoutAbsent(h) == ctxDone

\* r.Use(middleware.Timeout(30 * time.Second)): context.WithTimeout around the
\* context of every request, whose Done channel is closed when the timer fires
Timeout(h) == [ctxDone EXCEPT ![h] = TRUE]

\* the timer of the request's deadline fires, 30 seconds after the request began
DeadlineFires(h) ==
    /\ spc[h] \in {"snapshot", "loop"}
    /\ ~ctxDone[h]
    /\ ctxDone' = Timeout(h)
    /\ UNCHANGED <<spc, semail, pending, tickBuf, closed, sent, nnotify,
                   recvSince, winSent, lastFlushN,
                   persisted, owed, sentSeq, dropped, nburst>>
    /\ UNCHANGED <<trackVars, notifierVars, cacheVars, callVars>>

\* case <-r.Context().Done(): return; the deferred throttle.Stop() and
\* Unsubscribe, which closes the channel
StreamReturn(h) ==
    /\ spc[h] = "loop"
    /\ ctxDone[h]
    /\ spc' = [spc EXCEPT ![h] = "done"]
    /\ subscribers' = Unsubscribe(semail[h], h)
    /\ closed' = [closed EXCEPT ![h] = TRUE]
    /\ UNCHANGED <<chanBuf, semail, pending, tickBuf, ctxDone, sent, nnotify,
                   recvSince, winSent, lastFlushN,
                   persisted, owed, sentSeq, dropped, nburst>>
    /\ UNCHANGED <<trackVars, cacheVars, callVars>>

\* the runtime's timer, every 333 ms between NewTicker and Stop: a tick is
\* dropped when throttle.C already holds one
TickerFire(h) ==
    /\ spc[h] \in {"snapshot", "loop"}
    /\ tickBuf' = [tickBuf EXCEPT ![h] = 1]
    /\ winSent' = [winSent EXCEPT ![h] = 0]
    /\ UNCHANGED <<spc, semail, pending, ctxDone, closed, sent, nnotify,
                   recvSince, lastFlushN, persisted, owed, sentSeq, dropped, nburst>>
    /\ UNCHANGED <<trackVars, notifierVars, cacheVars, callVars>>

\* a view or click handler calls s.viewNotifier.Notify(e)
NotifyEmail(e) ==
    /\ nnotify < MaxNotifies
    /\ nnotify' = nnotify + 1
    /\ Notify(e)
    /\ owed' = [h \in StreamIds |->
                    IF h \in Subscribed(e) THEN persisted[e] ELSE owed[h]]
    /\ dropped' = [h \in StreamIds |->
                    IF h \in Subscribed(e) /\ chanBuf[h] = ChanCap
                    THEN persisted[e] ELSE dropped[h]]
    /\ UNCHANGED <<spc, semail, pending, tickBuf, ctxDone, closed, sent,
                   recvSince, winSent, lastFlushN, persisted, sentSeq, nburst>>
    /\ UNCHANGED <<trackVars, cacheVars, callVars>>

RECURSIVE NotifyTimes(_, _, _)
\* the buffers after n successive calls of Notify(e)
NotifyTimes(e, buf, n) ==
    IF n = 0 THEN buf
    ELSE NotifyTimes(e,
            [h \in StreamIds |->
                IF h \in Subscribed(e) /\ buf[h] < ChanCap THEN buf[h] + 1 ELSE buf[h]],
            n - 1)

\* a burst of tracking requests for e, once: ChanCap handlers call Notify(e)
\* before a stream handler runs again
NotifyBurst(e) ==
    /\ nburst = 0
    /\ Subscribed(e) # {}
    /\ nburst' = nburst + 1
    /\ chanBuf' = NotifyTimes(e, chanBuf, ChanCap)
    /\ owed' = [h \in StreamIds |->
                    IF h \in Subscribed(e) THEN persisted[e] ELSE owed[h]]
    /\ dropped' = [h \in StreamIds |->
                    IF h \in Subscribed(e) /\ chanBuf[h] > 0
                    THEN persisted[e] ELSE dropped[h]]
    /\ UNCHANGED <<subscribers, spc, semail, pending, tickBuf, ctxDone, closed, sent,
                   nnotify, recvSince, winSent, lastFlushN, persisted, sentSeq>>
    /\ UNCHANGED <<trackVars, cacheVars, callVars>>

\* the handler that committed a row for e calls Notify(e): TrackEmailView or
\* TrackLinkClick returns before s.viewNotifier.Notify runs
NotifyAfterInsert(e) ==
    /\ nnotify < persisted[e]
    /\ NotifyEmail(e)

\* TrackEmailView or TrackLinkClick commits a row for e
MetricsInsert(e) ==
    /\ persisted[e] < MaxInserts
    /\ persisted' = [persisted EXCEPT ![e] = @ + 1]
    /\ UNCHANGED <<spc, semail, pending, tickBuf, ctxDone, closed, sent, nnotify,
                   recvSince, winSent, lastFlushN, owed, sentSeq, dropped, nburst>>
    /\ UNCHANGED <<trackVars, notifierVars, cacheVars, callVars>>

InitStream ==
    /\ spc = [h \in StreamIds |-> "idle"]
    /\ semail = [h \in StreamIds |-> ""]
    /\ pending = [h \in StreamIds |-> FALSE]
    /\ tickBuf = [h \in StreamIds |-> 0]
    /\ ctxDone = [h \in StreamIds |-> FALSE]
    /\ closed = [h \in StreamIds |-> FALSE]
    /\ sent = [h \in StreamIds |-> 0]
    /\ nnotify = 0
    /\ persisted = [e \in Emails |-> 0]
    /\ owed = [h \in StreamIds |-> 0]
    /\ sentSeq = [h \in StreamIds |-> 0]
    /\ dropped = [h \in StreamIds |-> 0]
    /\ nburst = 0
    /\ recvSince = [h \in StreamIds |-> 0]
    /\ winSent = [h \in StreamIds |-> 0]
    /\ lastFlushN = [h \in StreamIds |-> 0]

-----------------------------------------------------------------------------
(* The tracking endpoints: any number of view goroutines and click requests *)

CookieInputs == CookieValues \cup {Absent}

\* no cookie, or one this server has issued at some time
SessionCookies == {generateSessionID(r) : r \in RandomBytes} \cup {Absent}

-----------------------------------------------------------------------------
(* ViewNotifier under its RWMutex, one step per lock operation and per send *)

\* what the calls on the notifier leave alone
NotifierFrame ==
    UNCHANGED <<rw, page, fnVars, trackVars, cacheVars, spc, pending, tickBuf,
                ctxDone, sent, nnotify, recvSince, winSent, lastFlushN, persisted,
                owed, sentSeq, dropped, nburst>>

\* the channels no Subscribe has made yet
FreeChans == {h \in StreamIds : semail[h] = ""}

\* the calls of Subscribe that have not made their channel yet
Subscribing == {g \in Goroutines : gpc[g].op = "Subscribe"}

\* goroutines inside vn.mu.Lock(), waiting for the lock
WritersWaiting ==
    {g \in Goroutines : gpc[g].at = "lock" /\ gpc[g].op \in {"Subscribe", "Unsubscribe"}}

\* a handler calls vn.Subscribe(e)
CallSubscribe(g, e) ==
    /\ gpc[g].at = "idle"
    /\ Cardinality(FreeChans) > Cardinality(Subscribing)
    /\ gpc' = [gpc EXCEPT ![g] = [NoCall EXCEPT !.op = "Subscribe", !.e = e, !.at = "lock"]]
    /\ UNCHANGED <<mu, panicked, subscribers, chanBuf, closed, semail>>
    /\ NotifierFrame

\* a handler calls vn.Unsubscribe(e, ch) with a channel Subscribe(e) returned
CallUnsubscribe(g, ch) ==
    /\ gpc[g].at = "idle"
    /\ semail[ch] # ""
    /\ gpc' = [gpc EXCEPT ![g] = [NoCall EXCEPT !.op = "Unsubscribe", !.e = semail[ch],
                                                !.ch = ch, !.at = "lock"]]
    /\ UNCHANGED <<mu, panicked, subscribers, chanBuf, closed, semail>>
    /\ NotifierFrame

\* a handler calls vn.Notify(e)
CallNotify(g, e) ==
    /\ gpc[g].at = "idle"
    /\ gpc' = [gpc EXCEPT ![g] = [NoCall EXCEPT !.op = "Notify", !.e = e, !.at = "lock"]]
    /\ UNCHANGED <<mu, panicked, subscribers, chanBuf, closed, semail>>
    /\ NotifierFrame

\* vn.mu.Lock() returns: no goroutine holds the lock in either mode
Lock(g) ==
    /\ gpc[g].at = "lock"
    /\ gpc[g].op \in {"Subscribe", "Unsubscribe"}
    /\ mu = NoLock
    /\ mu' = [mu EXCEPT !.writer = g]
    /\ gpc' = [gpc EXCEPT ![g].at = "locked"]
    /\ UNCHANGED <<panicked, subscribers, chanBuf, closed, semail>>
    /\ NotifierFrame

RECURSIVE Concat(_, _)
Concat(f, S) ==
    IF S = {} THEN <<>>
    ELSE LET x == CHOOSE y \in S : TRUE IN f[x] \o Concat(f, S \ {x})

\* Notify sending on the channels of every email
TargetsAll(e) == Concat(subscribers, DOMAIN subscribers)

\* the channels a call of Notify(e) sends on
Targets(e) == IF e \in DOMAIN subscribers THEN subscribers[e] ELSE <<>>

\* vn.mu.RLock() returns: no writer holds the lock or waits for it; the range
\* statement then reads vn.subscribers[emailID] once
RLock(g) ==
    /\ gpc[g].at = "lock"
    /\ gpc[g].op = "Notify"
    /\ mu.writer = ""
    /\ WritersWaiting = {}
    /\ mu' = [mu EXCEPT !.readers = @ \cup {g}]
    /\ gpc' = [gpc EXCEPT ![g].at = "send", ![g].i = 1, ![g].list = Targets(gpc[g].e)]
    /\ UNCHANGED <<panicked, subscribers, chanBuf, closed, semail>>
    /\ NotifierFrame

\* Subscribe between Lock and the deferred Unlock: make(chan struct{}, 10) and
\* append
SubscribeLocked(g) ==
    /\ gpc[g].at = "locked"
    /\ gpc[g].op = "Subscribe"
    /\ LET ch == CHOOSE h \in FreeChans : \A h2 \in FreeChans : h = "c1" \/ h2 # "c1" IN
        /\ subscribers' = Subscribe(gpc[g].e, ch)
        /\ semail' = [semail EXCEPT ![ch] = gpc[g].e]
        /\ chanBuf' = [chanBuf EXCEPT ![ch] = 0]
    /\ mu' = NoLock
    /\ gpc' = [gpc EXCEPT ![g] = NoCall]
    /\ UNCHANGED <<panicked, closed>>
    /\ NotifierFrame

\* Unsubscribe closing the channel without looking for it in the list
FoundAlways(e, ch) == TRUE

\* for i, sub := range subs { if sub == ch { ... } }
Found(e, ch) == ch \in Subscribed(e)

\* Unsubscribe between Lock and the deferred Unlock: the channel is closed if
\* it is found in the list; close panics on a channel that is closed already
UnsubscribeLocked(g) ==
    /\ gpc[g].at = "locked"
    /\ gpc[g].op = "Unsubscribe"
    /\ subscribers' = Unsubscribe(gpc[g].e, gpc[g].ch)
    /\ IF Found(gpc[g].e, gpc[g].ch)
       THEN /\ closed' = [closed EXCEPT ![gpc[g].ch] = TRUE]
            /\ panicked' = (panicked \/ closed[gpc[g].ch])
       ELSE UNCHANGED <<closed, panicked>>
    /\ mu' = NoLock
    /\ gpc' = [gpc EXCEPT ![g] = NoCall]
    /\ UNCHANGED <<chanBuf, semail>>
    /\ NotifierFrame

\* select { case ch <- struct{}{}: default: } on a buffer holding n items
SendNonBlocking(n) == IF n < ChanCap THEN n + 1 ELSE n

\* one iteration of the loop of Notify; a send on a closed channel panics
NotifySend(g) ==
    /\ gpc[g].at = "send"
    /\ gpc[g].i <= Len(gpc[g].list)
    /\ LET ch == gpc[g].list[gpc[g].i] IN
        /\ chanBuf' = [chanBuf EXCEPT ![ch] = IF closed[ch] THEN @ ELSE SendNonBlocking(@)]
        /\ panicked' = (panicked \/ closed[ch])
        /\ gpc' = [gpc EXCEPT ![g].i = @ + 1,
                              ![g].drops = IF chanBuf[ch] >= ChanCap THEN 1 ELSE @]
    /\ UNCHANGED <<mu, subscribers, closed, semail>>
    /\ NotifierFrame

\* the loop of Notify is over: the deferred RUnlock
NotifyReturn(g) ==
    /\ gpc[g].at = "send"
    /\ gpc[g].i > Len(gpc[g].list)
    /\ mu' = [mu EXCEPT !.readers = @ \ {g}]
    /\ gpc' = [gpc EXCEPT ![g] = NoCall]
    /\ UNCHANGED <<panicked, subscribers, chanBuf, closed, semail>>
    /\ NotifierFrame

\* the stream handler that holds ch takes a notification: case <-notifyCh
ChanRecv(ch) ==
    /\ semail[ch] # ""
    /\ chanBuf[ch] > 0
    /\ chanBuf' = [chanBuf EXCEPT ![ch] = @ - 1]
    /\ UNCHANGED <<mu, gpc, panicked, subscribers, closed, semail>>
    /\ NotifierFrame

\* a step of a call in progress
NotifierStep(g) ==
    \/ Lock(g)
    \/ RLock(g)
    \/ SubscribeLocked(g)
    \/ UnsubscribeLocked(g)
    \/ NotifySend(g)
    \/ NotifyReturn(g)

DbOutcomes == {"ok", "selerr", "inserr"}

InitNotifier ==
    /\ subscribers = <<>>
    /\ chanBuf = [h \in StreamIds |-> 0]

InitTrack ==
    /\ now = 0
    /\ metricsOn \in BOOLEAN
    /\ email_views = {}
    /\ email_link_clicks = {}
    /\ clicks = [k \in RemoteAddrs |-> NoTime]
    /\ known = {}
    /\ nreq = 0
    /\ pc = [p \in Procs |-> "idle"]
    /\ req = [p \in Procs |-> IdleReq]
    /\ resp = [p \in Procs |-> NoResp]
    /\ clickResp = NoClickResp
    /\ clickPairs = [e \in Emails |-> {}]
    /\ recTimes = [i \in ClientIPs |-> <<NoTime, NoTime>>]
    /\ InitNotifier
    /\ InitCache
    /\ InitStream
    /\ InitCalls

NextView ==
    \/ \E p \in Procs : ViewMissingID(p)
    \/ \E p \in Procs, e \in Emails, c \in SessionCookies :
          \E rnd \in (IF c = Absent THEN FreshRandom ELSE {"r1"}) : ViewBegin(p, e, c, rnd)
    \/ \E p \in Procs, ok \in BOOLEAN : ViewSelect(p, ok)
    \/ \E p \in Procs, ok \in BOOLEAN : ViewInsert(p, ok)
    \/ \E p \in Procs, mok \in BOOLEAN, wok \in BOOLEAN : ViewCount(p, mok, wok)
    \/ \E t \in ViewTimes : Tick(t)

SpecView == InitTrack /\ [][NextView]_vars

NextClick ==
    \/ \E b \in BadClickInputs : ClickBadRequest(b)
    \/ \E conn \in ClientConns, l \in ClickLinks, c \in SessionCookies, db \in DbOutcomes :
          \E rnd \in (IF c = Absent THEN FreshRandom ELSE {"r1"}) :
              Click(conn, l.email, l.index, l.url, c, rnd, db)
    \/ ClickCleanup
    \/ \E t \in ClickTimes : Tick(t)

SpecClick == InitTrack /\ [][NextClick]_vars

\* one view goroutine and the clicks of one direct connection
NextSession ==
    \/ \E e \in Emails, c \in CookieInputs :
          \E rnd \in (IF c = Absent THEN FreshRandom ELSE {"r1"}) :
              ViewBegin("h1", e, c, rnd)
    \/ \E ok \in BOOLEAN : ViewSelect("h1", ok)
    \/ \E ok \in BOOLEAN : ViewInsert("h1", ok)
    \/ \E mok \in BOOLEAN, wok \in BOOLEAN : ViewCount("h1", mok, wok)
    \/ \E l \in ClickLinks, c \in CookieInputs, db \in DbOutcomes :
          \E rnd \in (IF c = Absent THEN FreshRandom ELSE {"r1"}) :
              Click([peer |-> [ip |-> "ip1", port |-> 1000], xff |-> ""],
                    l.email, l.index, l.url, c, rnd, db)
    \/ \E t \in ViewTimes : Tick(t)

SpecSession == InitTrack /\ [][NextSession]_vars

\* the read endpoints: concurrent requests, data changes and the clock
InitServer ==
    /\ now = 0
    /\ metricsOn = TRUE
    /\ email_views = {}
    /\ email_link_clicks = {}
    /\ clicks = [k \in RemoteAddrs |-> NoTime]
    /\ known = {}
    /\ nreq = 0
    /\ pc = [p \in Procs |-> "idle"]
    /\ req = [p \in Procs |-> IdleReq]
    /\ resp = [p \in Procs |-> NoResp]
    /\ clickResp = NoClickResp
    /\ clickPairs = [e \in Emails |-> {}]
    /\ recTimes = [i \in ClientIPs |-> <<NoTime, NoTime>>]
    /\ InitNotifier
    /\ InitCache
    /\ InitStream
    /\ InitCalls

NextCache ==
    \/ \E p \in Procs, r \in ReadReqs : \E m \in MatchInputs(r) : ReadLookup(p, r, m)
    \/ \E p \in Procs, err \in BuildErrors : ReadBuild(p, err)
    \/ \E p \in Procs : ReadSet(p)
    \/ DataChange
    \/ \E t \in CacheTimes : Tick(t)

SpecCache == InitServer /\ [][NextCache]_vars

\* the read endpoints with every error a builder can return
NextErrors ==
    \/ \E p \in Procs, r \in ReadReqs : ReadLookup(p, r, NoETag)
    \/ \E p \in Procs, err \in AllBuildErrors : ReadBuild(p, err)
    \/ \E p \in Procs : ReadSet(p)

SpecErrors == InitServer /\ [][NextErrors]_vars

\* the stats streams, the notifications of the tracking handlers and the tickers
NextStream ==
    \/ \E h \in StreamIds : StreamMissingID(h)
    \/ \E h \in StreamIds, e \in Emails : StreamOpen(h, e)
    \/ \E h \in StreamIds : StreamSnapshot(h)
    \/ \E h \in StreamIds : StreamRecvNotify(h)
    \/ \E h \in StreamIds : StreamRecvTick(h)
    \/ \E h \in StreamIds : ClientGone(h)
    \/ \E h \in StreamIds : StreamReturn(h)
    \/ \E h \in StreamIds : TickerFire(h)
    \/ \E e \in Emails : NotifyEmail(e)

SpecStream == InitServer /\ [][NextStream]_vars

\* view requests while stream handlers are subscribed
NextViewStream ==
    \/ \E h \in StreamIds, e \in Emails : StreamOpen(h, e)
    \/ \E p \in Procs, e \in Emails, c \in {Absent, generateSessionID("r1")} :
          \E rnd \in (IF c = Absent THEN FreshRandom ELSE {"r1"}) : ViewBegin(p, e, c, rnd)
    \/ \E p \in Procs, ok \in BOOLEAN : ViewSelect(p, ok)
    \/ \E p \in Procs, ok \in BOOLEAN : ViewInsert(p, ok)
    \/ \E p \in Procs, mok \in BOOLEAN, wok \in BOOLEAN : ViewCount(p, mok, wok)

SpecViewStream == InitServer /\ [][NextViewStream]_vars

\* handlers calling Subscribe, Unsubscribe and Notify at the same time, and the
\* stream handlers draining their channels
NextNotifier ==
    \/ \E g \in Goroutines, e \in Emails : CallSubscribe(g, e)
    \/ \E g \in Goroutines, ch \in StreamIds : CallUnsubscribe(g, ch)
    \/ \E g \in Goroutines, e \in Emails : CallNotify(g, e)
    \/ \E g \in Goroutines : Lock(g)
    \/ \E g \in Goroutines : RLock(g)
    \/ \E g \in Goroutines : SubscribeLocked(g)
    \/ \E g \in Goroutines : UnsubscribeLocked(g)
    \/ \E g \in Goroutines : NotifySend(g)
    \/ \E g \in Goroutines : NotifyReturn(g)
    \/ \E ch \in StreamIds : ChanRecv(ch)

SpecNotifier == InitServer /\ [][NextNotifier]_vars

\* one stream of an email under tracking traffic: rows are committed, Notify is
\* called singly and in bursts
NextStreamFair ==
    \/ StreamOpen("c1", "E1")
    \/ \E h \in StreamIds : StreamSnapshot(h)
    \/ \E h \in StreamIds : StreamRecvNotify(h)
    \/ \E h \in StreamIds : StreamRecvTick(h)
    \/ \E h \in StreamIds : ClientGone(h)
    \/ \E h \in StreamIds : StreamReturn(h)
    \/ \E h \in StreamIds : TickerFire(h)
    \/ NotifyAfterInsert("E1")
    \/ NotifyBurst("E1")
    \/ MetricsInsert("E1")

\* the goroutine of a stream handler is scheduled, select takes a ready case
\* at random so a case that stays ready is taken, and the runtime's timer keeps
\* firing until Stop
StreamFairness ==
    \A h \in StreamIds :
        /\ WF_vars(StreamSnapshot(h))
        /\ WF_vars(StreamRecvNotify(h))
        /\ WF_vars(StreamRecvTick(h))
        /\ WF_vars(StreamReturn(h))
        /\ WF_vars(TickerFire(h))

SpecStreamFair == InitServer /\ [][NextStreamFair]_vars /\ StreamFairness

\* streams of both emails that come and go, under the notifications of the
\* handlers that committed a row
NextDisconnect ==
    \/ \E h \in StreamIds : StreamMissingID(h)
    \/ \E h \in StreamIds, e \in Emails : StreamOpen(h, e)
    \/ \E h \in StreamIds : StreamSnapshot(h)
    \/ \E h \in StreamIds : StreamRecvNotify(h)
    \/ \E h \in StreamIds : StreamRecvTick(h)
    \/ \E h \in StreamIds : ClientGone(h)
    \/ \E h \in StreamIds : StreamReturn(h)
    \/ \E h \in StreamIds : TickerFire(h)
    \/ NotifyAfterInsert("E1")
    \/ MetricsInsert("E1")

SpecDisconnectFair == InitServer /\ [][NextDisconnect]_vars /\ StreamFairness

\* streams whose clients stay connected, under the deadline of their requests
NextDeadline ==
    \/ \E h \in StreamIds : StreamMissingID(h)
    \/ \E h \in StreamIds, e \in Emails : StreamOpen(h, e)
    \/ \E h \in StreamIds : StreamSnapshot(h)
    \/ \E h \in StreamIds : StreamRecvNotify(h)
    \/ \E h \in StreamIds : StreamRecvTick(h)
    \/ \E h \in StreamIds : DeadlineFires(h)
    \/ \E h \in StreamIds : StreamReturn(h)
    \/ \E h \in StreamIds : TickerFire(h)
    \/ NotifyAfterInsert("E1")
    \/ MetricsInsert("E1")

\* the timer that context.WithTimeout starts fires when its 30 seconds are over
DeadlineFairness == \A h \in StreamIds : WF_vars(DeadlineFires(h))

SpecDeadlineFair ==
    InitServer /\ [][NextDeadline]_vars /\ StreamFairness /\ DeadlineFairness

\* one read endpoint reached under several Host headers and schemes
NextCacheHosts ==
    \/ \E p \in Procs, r \in HostReqs : ReadLookup(p, r, NoETag)
    \/ \E p \in Procs : ReadBuild(p, "none")
    \/ \E p \in Procs : ReadSet(p)
    \/ \E t \in CacheTimes : Tick(t)

SpecCacheHosts == InitServer /\ [][NextCacheHosts]_vars

\* the list functions over warehouses of up to MaxRows rows
NextList ==
    \/ /\ page.calls = 0
       /\ \E n \in 0..MaxRows, limit \in Limits, offset \in Offsets :
             ListMailingLists(n, limit, offset)
    \/ /\ page.calls = 0
       /\ \E n \in 0..MaxRows, limit \in Limits, offset \in Offsets :
             ListEmails(n, limit, offset)
    \/ ListFollow

SpecList == InitServer /\ [][NextList]_vars

\* the list handlers over warehouses of up to MaxCampaigns campaigns
NextWarehouse ==
    \/ /\ listing.fn = ""
       /\ \E n \in 0..MaxCampaigns, limit \in Limits, offset \in 0..1 :
             \E wh \in Warehouses(n), subs \in SubscriberCounts :
                handleMailingLists(wh, subs, limit, offset)
    \/ /\ listing.fn = ""
       /\ \E n \in 0..MaxCampaigns, limit \in Limits, offset \in 0..MaxCampaigns :
             \E wh \in Warehouses(n), mlid \in {""} \cup MailingListIDs :
                handleEmails(wh, mlid, limit, offset)
    \/ /\ listing.fn = ""
       /\ \E n \in 0..MaxCampaigns, g \in GroupAllValues, v \in LimitPerListValues :
             \E wh \in Warehouses(n), subs \in SubscriberCounts :
                handleMailingListsEmails(wh, subs, g, v)

SpecWarehouse == InitServer /\ [][NextWarehouse]_vars

\* the slug of every sample row
NextSlug ==
    /\ ~slugged.done
    /\ \E e \in Emails, n \in 0..MaxSubject, aiSlug \in AiSlugs :
          \E subject \in Strings(n) \cup {FooAndBarBaz} : ScanEmail(e, subject, aiSlug)

SpecSlug == InitServer /\ [][NextSlug]_vars

\* every sample request under every sample CORS_ALLOWED_ORIGINS
NextCors ==
    \E env \in CorsEnvValues, origin \in Origins, method \in CorsMethods,
       path \in CorsPaths : ServeCors(env, origin, method, path)

SpecCors == InitServer /\ [][NextCors]_vars

\* NewStore under every sample environment
NextNewStore ==
    /\ ~pool.done
    /\ \E insecure \in InsecureValues, n \in 0..MaxParams :
          \E url \in DatabaseURLs(n) : NewStore(insecure, url)

SpecNewStore == InitServer /\ [][NextNewStore]_vars

\* rewriteEmailLinks on every document and request of the samples
NextRewrite ==
    \/ /\ rw.passes = 0
       /\ \E r \in RewriteReqs, n \in 0..MaxAnchors :
             \E e \in Emails, html \in Documents(n) : RewriteCall(r, e, html)
    \/ RewriteAgain

SpecRewrite == InitServer /\ [][NextRewrite]_vars

\* one email is rewritten for a request, and a client follows its links
NextFollow ==
    \/ /\ rw.passes = 0
       /\ \E tls \in BOOLEAN, n \in 1..2 :
             \E e \in Emails, html \in FollowDocs(n) :
                RewriteCall([peer |-> "ip1", tls |-> tls, xfp |-> "", host |-> "h"], e, html)
    \/ \E i \in 1..2, conn \in ClientConns, c \in {Absent, generateSessionID("r1")},
            db \in DbOutcomes :
          \E rnd \in (IF c = Absent THEN FreshRandom ELSE {"r1"}) :
              FollowLink(i, conn, c, rnd, db)

SpecFollow == InitServer /\ [][NextFollow]_vars

-----------------------------------------------------------------------------
(* Claims about the tracking endpoints *)

\* the strings that denote an integer
IsIntegerStr(s) == s \in {"0", "1", "+1"}

\* C1: every click request with a non-empty id, an integer index and a non-empty
\* url is answered 302 with Location equal to that url, whatever the rate
\* limiter and the metrics write did.
C1_RedirectToURL ==
    (/\ clickResp.status # 0
     /\ clickResp.email # ""
     /\ IsIntegerStr(clickResp.index)
     /\ clickResp.url # EmptyURL)
    => (clickResp.status = 302 /\ clickResp.location = clickResp.url)

\* C2: two tracked clicks (ShouldTrack returned true) of one client IP are more
\* than 100 ms apart, whatever port or connection they came on.
C2_TrackedClicksApart ==
    \A ip \in ClientIPs :
        recTimes[ip][1] # NoTime => recTimes[ip][2] - recTimes[ip][1] > ClickGapMs

SameView(r1, r2) == r1.session_id = r2.session_id /\ r1.email_id = r2.email_id

SessionRule(cookie, set, row) ==
    /\ cookie # Absent => ~set.present
    /\ cookie = Absent =>
          /\ set.present
          /\ set.value.len * 4 = 128
          /\ \E r \in RandomBytes : set.value = generateSessionID(r)
    /\ row.seq # -1 =>
          row.session_id = (IF cookie # Absent THEN cookie ELSE set.value)

\* C4: on every view or click request that reaches tracking, the session id
\* written with the event is the request's _track cookie when there is one (and
\* then no cookie is set), and otherwise a minted 128-bit hex id that is set as
\* the _track cookie of the same response.
C4_SessionIsCookieOrMinted ==
    /\ \A p \in Procs :
          resp[p].status = 200 => SessionRule(resp[p].cookie, resp[p].set, resp[p].row)
    /\ clickResp.status = 302 =>
          SessionRule(clickResp.cookie, clickResp.set, clickResp.row)

\* C4 witness: a cookieless view and a click with a cookie have both been
\* written to the metrics tables and answered.
C4_Witness ==
    /\ \E p \in Procs :
          resp[p].status = 200 /\ resp[p].cookie = Absent /\ resp[p].row.seq # -1
    /\ clickResp.status = 302 /\ clickResp.cookie # Absent /\ clickResp.row.seq # -1

-----------------------------------------------------------------------------
(* Claims about the read endpoints *)

\* C7: a read request whose If-None-Match equals the ETag of the entry (found in
\* the cache or just built on a miss) is answered 304 with no body; one with any
\* other If-None-Match, or none, is answered 200 with the entry's body.
C7_ConditionalResponse ==
    \A p \in Procs :
        cresp[p].status \in {200, 304} =>
            IF cresp[p].match = cresp[p].entryETag
            THEN cresp[p].status = 304 /\ cresp[p].body = NoBody
            ELSE cresp[p].status = 200 /\ cresp[p].body = cresp[p].entryBody

\* C7 witness: of two requests that missed together, one has been answered 304
\* for the entry it built, the other 200 for an If-None-Match that is not its
\* entry's ETag.
C7_Witness ==
    \E p, q \in Procs :
        /\ cresp[p].status = 304 /\ cresp[p].match = cresp[p].entryETag
        /\ cresp[q].status = 200
        /\ cresp[q].match \notin {NoETag, cresp[q].entryETag}

\* is etag the string W/"<40 hex digits of the sha1 of body>"
IsWeakSha1Of(etag, body) ==
    /\ etag.prefix = "W/"
    /\ etag.quoted.hex = Sha1(body)
    /\ etag.quoted.len = 40

\* C8: every 200 response of a read endpoint, from the cache or freshly built,
\* carries the ETag W/"<hex sha1 of the body sent>", and for every cached key Get
\* returns the etag computed over the bytes it returns.
C8_ETagOfBody ==
    /\ \A p \in Procs :
          cresp[p].status = 200 => IsWeakSha1Of(cresp[p].etag, cresp[p].body)
    /\ \A k \in CacheKeys : Get(k).ok => IsWeakSha1Of(Get(k).etag, Get(k).val)

\* C8 witness: a 200 served from a live cache entry, after the 200 of the miss
\* that built the entry.
C8_Witness ==
    \E p \in Procs :
        /\ cresp[p].status = 200 /\ cresp[p].hit
        /\ Get(cacheKey(cresp[p].req)).ok
        /\ \E a \in served :
              a.req = cresp[p].req /\ a.latest = cresp[p].latest /\ a.time < cresp[p].time

-----------------------------------------------------------------------------
(* Claims about the stats stream *)

\* the step writes an event on stream h after its initial snapshot
EmitsUpdate(h) == spc[h] = "loop" /\ sent'[h] # sent[h]

\* C10: within one stream, after the initial snapshot, an update is written only
\* in the step that receives a throttle tick, only if at least one notification
\* was received since the previous flush, and one at a time; so however many
\* Notify calls fall between two firings of the ticker, at most one update is
\* written between them.
C10_UpdateOnlyAtTick ==
    /\ [][\A h \in StreamIds :
            EmitsUpdate(h) =>
                /\ tickBuf[h] = 1 /\ tickBuf'[h] = 0
                /\ recvSince[h] >= 1 /\ recvSince'[h] = 0
                /\ sent'[h] = sent[h] + 1]_vars
    /\ [](\A h \in StreamIds : winSent[h] <= 1)

\* C10 witness: a stream has written one update, at a tick, for two
\* notifications received since its snapshot.
C10_Witness ==
    \E h \in StreamIds :
        /\ spc[h] = "loop"
        /\ sent[h] = 2
        /\ lastFlushN[h] >= 2
        /\ winSent[h] = 1


\* C11: when Notify(e) is called after a row for e was committed, while stream h
\* is subscribed to e, then h writes an update whose counts were read after
\* that commit, or its client goes away; this also when the notification found
\* the buffer of h full and was dropped.
C11_UpdateAfterInsert ==
    \A h \in StreamIds : \A k \in 1..MaxInserts :
        (owed[h] >= k /\ ~ctxDone[h]) ~> (sentSeq[h] >= k \/ ctxDone[h])

\* C11 witness: a notification that followed a commit was dropped at the full
\* buffer of a stream, and the stream, still connected, has since written an
\* update that read the counts after the commit.
C11_Witness ==
    \E h \in StreamIds :
        /\ dropped[h] >= 1
        /\ sentSeq[h] >= dropped[h]
        /\ spc[h] = "loop"
        /\ ~ctxDone[h]
        /\ sent[h] >= 2


\* the channels registered in ViewNotifier.subscribers
Registered == UNION {Range(subscribers[e]) : e \in DOMAIN subscribers}

\* the stream handlers between Subscribe and the deferred Unsubscribe
Running == {h \in StreamIds : spc[h] \in {"snapshot", "loop"}}

\* C12: once the context of a stream is cancelled its handler returns and its
\* channel is unsubscribed; and at every moment the registered channels are
\* those of the running stream handlers, each under the email of its request.
C12_NoSubscriberOutlivesConnection ==
    /\ \A h \in StreamIds : ctxDone[h] ~> (spc[h] = "done" /\ h \notin Registered)
    /\ [](/\ Registered = Running
          /\ \A h \in Running : h \in Subscribed(semail[h])
          /\ \A e \in DOMAIN subscribers : Len(subscribers[e]) = Cardinality(Subscribed(e)))

\* C12 witness: of two streams of one email, one was disconnected and has
\* returned; the other one alone is still registered.
C12_Witness ==
    /\ ctxDone["c1"] /\ spc["c1"] = "done" /\ closed["c1"]
    /\ spc["c2"] = "loop" /\ semail["c2"] = semail["c1"]
    /\ subscribers = [e \in {semail["c2"]} |-> <<"c2">>]


-----------------------------------------------------------------------------
(* Claims about link rewriting *)

\* the anchors of a parsed document that the rewrite replaces
Rewritable(doc) == {i \in 1..Len(doc) : doc[i].has /\ ~Skipped(doc[i].href)}

\* C13: in the rewritten document an anchor whose href starts with mailto:,
\* tel: or # has the href it had, and the i-th of the other anchors with an
\* href, counted from 0 in document order over those anchors only, has the href
\* <base>/emails/<email_id>/click/<i>?url=<query-escaped original href>.
C13_RewrittenLinks ==
    rw.passes >= 1 =>
        LET in == ParseHTML(rw.html)
            out == ParseHTML(rw.out)
        IN  /\ Len(out) = Len(in)
            /\ \A i \in 1..Len(in) :
                 IF i \in Rewritable(in)
                 THEN out[i] = Anchor(NewURL(BaseURL(rw.req), rw.email,
                                   Cardinality({j \in Rewritable(in) : j < i}),
                                   in[i].href))
                 ELSE out[i] = in[i]

\* C13 witness: a document with a rewritten anchor, then a mailto: anchor, then
\* a second rewritten anchor that carries index 1.
C13_Witness ==
    /\ rw.passes >= 1
    /\ Len(rw.html) = 3
    /\ Rewritable(ParseHTML(rw.html)) = {1, 3}
    /\ HasPrefix(rw.html[2].href, <<"mailto", ":">>)
    /\ rw.out[2] = rw.html[2]
    /\ HasPrefix(rw.out[3].href, BaseURL(rw.req) \o
            <<"/", "emails", "/", rw.email, "/", "click", "/", "1", "?", "url", "=">>)

\* C14: the rewrite of an already rewritten document is that document.
C14_RewriteIdempotent ==
    rw.passes = 2 => rw.again = rw.out


\* the schemes of the rewritten links of the last call
LinkSchemes == {ParseHTML(rw.out)[i].href[1] : i \in Rewritable(ParseHTML(rw.html))}

\* C16: the rewritten links have the scheme https exactly when the connection
\* is TLS or the peer is a trusted proxy whose X-Forwarded-Proto says https;
\* the X-Forwarded-Proto of any other peer changes nothing.
C16_SchemeFromTrustedProxyOnly ==
    rw.passes >= 1 =>
        \A sch \in LinkSchemes :
            sch = "https" <=>
                \/ rw.req.tls
                \/ rw.req.peer \in TrustedProxies /\ rw.req.xfp = "https"


\* C15: every 200 response of a read endpoint carries links rewritten with the
\* base URL of the request it answers, also when it is served from the cache.
C15_LinksFromOwnRequest ==
    \A a \in served : a.body.base = BaseURL(a.req)


-----------------------------------------------------------------------------
(* Claims about the client address *)

\* the values a peer can put in a forwarded header
HeaderValues == {"", "ip1", "ip2", "px"}

-----------------------------------------------------------------------------
(* Claims about the reported counts *)

\* the step answers a view request of goroutine p
AnswersView(p) == pc[p] = "count" /\ resp'[p].status = 200

-----------------------------------------------------------------------------
(* Claims about pagination *)

\* C19: a list call with limit L and offset O returns next_offset exactly when
\* its page holds L items, and then next_offset is O + L.
C19_NextOffsetIffFullPage ==
    page.calls >= 1 =>
        /\ page.next.present <=> Len(page.items) = page.limit
        /\ page.next.present => page.next.n = page.offset + page.limit
        /\ page.calls = 2 =>
              /\ page.next2.present <=> Len(page.items2) = page.limit
              /\ page.next2.present => page.next2.n = page.next.n + page.limit

\* C19 witness: a page taken at an offset is full and has next_offset, and the
\* page that follows it is short and has none.
C19_Witness ==
    /\ page.calls = 2
    /\ page.offset > 0
    /\ Len(page.items) = page.limit
    /\ page.next.n = page.offset + page.limit
    /\ Len(page.items2) \in 1..(page.limit - 1)
    /\ ~page.next2.present

\* C20: when a response has next_offset, the call at that offset over the
\* same data returns at least one item.
C20_NextOffsetMeansMore ==
    page.calls = 2 => Len(page.items2) >= 1

-----------------------------------------------------------------------------
(* Claims about the lists of emails and mailing lists *)

\* row i of loops.campaigns is a sent, publishable campaign of a mailing list
RowEligible(wh, i) ==
    /\ i \in 1..Len(wh)
    /\ wh[i].status = "Sent"
    /\ wh[i].list # Null
    /\ wh[i].publishable = "true"

\* the emails a call returned, those inside groups included
ReturnedEmails ==
    {listing.emails[i] : i \in 1..Len(listing.emails)}
        \cup UNION {{listing.groups[g].emails[i] : i \in 1..Len(listing.groups[g].emails)} :
                       g \in 1..Len(listing.groups)}

ReturnedLists == {listing.lists[i].id : i \in 1..Len(listing.lists)}

\* C21: every email returned by /emails and /mailing_lists/emails is a campaign
\* with status Sent, a non-null mailing list and the publishable flag set; every
\* mailing list returned by /mailing_lists has such a campaign, and a first page
\* large enough returns every list that has one, whatever its subscriber count.
C21_OnlyEligibleCampaigns ==
    /\ \A e \in ReturnedEmails :
          /\ RowEligible(listing.wh, e.id)
          /\ e.list = listing.wh[e.id].list
    /\ listing.fn = "handleMailingLists" =>
          /\ \A l \in ReturnedLists :
                \E i \in 1..Len(listing.wh) :
                   RowEligible(listing.wh, i) /\ listing.wh[i].list = l
          /\ (listing.offset = 0 /\ listing.limit >= Cardinality(MailingListIDs)) =>
                \A i \in 1..Len(listing.wh) :
                   RowEligible(listing.wh, i) => listing.wh[i].list \in ReturnedLists

\* /mailing_lists returned a list without subscribers from a warehouse that also
\* holds a campaign of that list which is not eligible
C21_Witness ==
    /\ listing.fn = "handleMailingLists"
    /\ \E i \in 1..Len(listing.lists) :
          /\ listing.lists[i].subscriber_count = 0
          /\ \E j \in 1..Len(listing.wh) :
                /\ listing.wh[j].list = listing.lists[i].id
                /\ ~RowEligible(listing.wh, j)

\* the eligible campaigns of mailing list l
EligibleRows(wh, l) == {i \in 1..Len(wh) : RowEligible(wh, i) /\ wh[i].list = l}

C22_WitnessAll ==
    /\ listing.fn = "handleMailingListsEmails"
    /\ listing.group_all = "true"
    /\ \E g \in 1..Len(listing.groups) : Len(listing.groups[g].emails) = 2

-----------------------------------------------------------------------------
(* Claims about error responses *)

\* the messages httpError may send
PublicMessages ==
    {<<"internal server error">>, <<"upstream timed out">>, <<"network timeout">>}

\* the responses that answer a builder's error
ErrorResponses == {p \in Procs : cresp[p].err # NilError}

\* C23: whatever error the builder of a read endpoint returns, the response has
\* status 500 or 504, its message is one of the three fixed strings, and no part
\* of the error's own text is in it; nothing else is written.
C23_ErrorsAreOpaque ==
    \A p \in ErrorResponses :
        /\ cresp[p].status \in {500, 504}
        /\ cresp[p].message \in PublicMessages
        /\ \A i \in 1..Len(cresp[p].message), j \in 1..Len(cresp[p].err) :
              cresp[p].message[i] # ErrorText(cresp[p].err)[j]
        /\ cresp[p].body = NoBody
        /\ cresp[p].etag = NoETag
        /\ cresp[p].contentType = "application/json; charset=utf-8"

\* a database error was answered 500 and a wrapped deadline 504
C23_Witness ==
    \E p, q \in ErrorResponses :
        /\ cresp[p].err = <<"plain">>
        /\ cresp[p].status = 500
        /\ cresp[q].err = <<"wrap", "deadline">>
        /\ cresp[q].status = 504

\* a timeout somewhere in the chain of an error
HasTimeout(e) == \E i \in 1..Len(e) : e[i] \in {"deadline", "nettimeout"}

\* C24: httpError answers 504 when the error is or wraps a context deadline
\* exceeded or a network timeout, and 500 for every other error.
C24_TimeoutsAnswer504 ==
    \A p \in ErrorResponses :
        cresp[p].status = IF HasTimeout(cresp[p].err) THEN 504 ELSE 500

-----------------------------------------------------------------------------
(* Claims about the session cookie of a response *)

\* a Set-Cookie of _track holding the session value sid
CarriesSession(set, sid) ==
    /\ set.present
    /\ set.value = sid

\* C25: every answered view (200) and click (302) carries a Set-Cookie of
\* _track holding the session value the handler used, whether or not the request
\* already carried the cookie, whether or not the metrics write succeeded and
\* whether or not the click was rate-limited.
C25_CookieOnEveryResponse ==
    /\ \A p \in Procs :
          resp[p].status = 200 => CarriesSession(resp[p].set, resp[p].sid)
    /\ clickResp.status = 302 => CarriesSession(clickResp.set, clickResp.sid)

\* C25 restricted to the requests that came without the cookie
C25_CookieWhenMinted ==
    /\ \A p \in Procs :
          (resp[p].status = 200 /\ resp[p].cookie = Absent) =>
              CarriesSession(resp[p].set, resp[p].sid)
    /\ (clickResp.status = 302 /\ clickResp.cookie = Absent) =>
          CarriesSession(clickResp.set, clickResp.sid)

-----------------------------------------------------------------------------
(* Claims about slugs *)

\* "foo-and-bar-baz"
FooAndBarBazSingle ==
    <<"f", "o", "o", "-", "a", "n", "d", "-", "b", "a", "r", "-", "b", "a", "z">>

\* "foo--and--bar-baz"
FooAndBarBazDouble ==
    <<"f", "o", "o", "-", "-", "a", "n", "d", "-", "-", "b", "a", "r", "-", "b", "a", "z">>

\* the rows whose slug comes from the subject
FromSubject == slugged.done /\ (slugged.aiSlug.nil \/ slugged.aiSlug.v = <<>>)

\* C26 as stated: slugify(" Foo & Bar/baz ") is "foo-and-bar-baz", the
\* separators between words coming out as single hyphens.
C26_SingleHyphens ==
    (FromSubject /\ slugged.subject = FooAndBarBaz) => slugged.slug = FooAndBarBazSingle

\* C26 amended: slugify(" Foo & Bar/baz ") is "foo--and--bar-baz": the spaces
\* around the "and" that replaces "&" each become a hyphen next to the one that
\* was already there, and adjacent hyphens are kept.
C26_AdjacentHyphensKept ==
    (FromSubject /\ slugged.subject = FooAndBarBaz) => slugged.slug = FooAndBarBazDouble

\* the slug of " Foo & Bar/baz " was derived
C26_Witness ==
    /\ FromSubject
    /\ slugged.subject = FooAndBarBaz
    /\ slugged.slug # <<>>

\* C27: an email's slug is its ai_publishable_slug when that is non-empty,
\* otherwise the slug derived from its subject, and when nothing of the subject
\* is left for a slug (an empty or all-punctuation subject) the email's id.
C27_SlugFallsBackToID ==
    slugged.done =>
        slugged.slug =
            IF ~slugged.aiSlug.nil /\ slugged.aiSlug.v # <<>> THEN slugged.aiSlug.v
            ELSE IF SlugOut(slugged.subject) # <<>> THEN SlugOut(slugged.subject)
            ELSE EmailID(slugged.id)

-----------------------------------------------------------------------------
(* Claims about CORS *)

\* C28: whatever CORS_ALLOWED_ORIGINS holds, unset included, the response to a
\* request whose Origin is a localhost or loopback origin has
\* Access-Control-Allow-Origin equal to that Origin.
C28_LocalhostAlwaysAllowed ==
    (cors.done /\ IsLocalOrigin(cors.origin)) => cors.allowOrigin = cors.origin

\* C28 for the routes behind the CORS middleware when CORS_ALLOWED_ORIGINS is
\* not empty
C28_LocalhostAllowedWhenConfigured ==
    (cors.done /\ IsLocalOrigin(cors.origin) /\ cors.env # <<>>
        /\ ~(cors.method = "GET" /\ cors.path = "/healthz")) =>
            cors.allowOrigin = cors.origin

-----------------------------------------------------------------------------
(* Claims about the content database connection *)

\* C29: unless ALLOW_DB_INSECURE is "1", the URL NewStore configures the content
\* pool from requires TLS (sslmode require or stricter), whatever DATABASE_URL
\* contains.
C29_ContentDBRequiresTLS ==
    (pool.done /\ pool.insecure # "1") => pool.sslmode \in TLSModes

\* C29 for a DATABASE_URL that names no sslmode
C29_RequireAddedWhenAbsent ==
    (pool.done /\ pool.insecure # "1" /\ ~ContainsSSLMode(pool.url)) =>
        pool.sslmode = "require"

-----------------------------------------------------------------------------
(* Claims about the size of the response cache *)

\* C30: after any sequence of Set calls the response cache holds at most
\* CacheMax entries (TTLCache.max, 512 in NewServer).
C30_CacheWithinCapacity == CacheLen <= CacheMax

-----------------------------------------------------------------------------
(* Claims about TTLCache.Set and TTLCache.Get *)

\* the stored entries whose expiresAt is the earliest of all
Earliest ==
    {k \in CacheKeys :
        /\ store[k].present
        /\ \A k2 \in CacheKeys : store[k2].present => store[k].expiresAt <= store[k2].expiresAt}

\* the request whose entry a step stores
SetOf(r) == nstores'[r] = nstores[r] + 1

\* C31: a Set call on a cache at capacity evicts exactly one entry, one with the
\* earliest expires_at among all stored entries; besides the key that is set,
\* every other entry stays as it was.
C31_EvictsEarliest ==
    [][\A r \in ReadReqs :
          (SetOf(r) /\ CacheLen >= CacheMax) =>
              \E victim \in Earliest :
                  \A k \in CacheKeys \ {cacheKey(r)} :
                      store'[k] = IF k = victim THEN NoItem ELSE store[k]]_vars

\* C32: Get reports an entry as present only at times strictly before its
\* expires_at: a lookup that is answered from the cache happens at
\* now < expires_at.
C32_HitOnlyBeforeExpiry ==
    [][\A p \in Procs :
          (nread' = nread + 1 /\ cresp'[p].hit) =>
              now < store[cacheKey(cresp'[p].req)].expiresAt]_vars

-----------------------------------------------------------------------------
(* Claims about the ViewNotifier under concurrent calls *)

\* the calls of Notify that hold the read lock
Sending == {g \in Goroutines : gpc[g].at = "send"}

\* C33: Notify(e) never blocks: while it runs, its next send or its return can
\* always be taken and the list it walks is e's subscriber list; each of its
\* sends is on a channel subscribed to e, adds one notification if the buffer
\* holds fewer than ChanCap and none otherwise, and changes no other channel and
\* no subscriber list; and no channel ever holds more than ChanCap notifications.
C33_NotifyNonBlocking ==
    /\ [](\A h \in StreamIds : chanBuf[h] <= ChanCap)
    /\ [](\A g \in Sending :
             /\ gpc[g].list = Targets(gpc[g].e)
             /\ ENABLED (NotifySend(g) \/ NotifyReturn(g)))
    /\ [][\A g \in Sending :
             gpc'[g].i = gpc[g].i + 1 =>
                 LET ch == gpc[g].list[gpc[g].i] IN
                     /\ ch \in Subscribed(gpc[g].e)
                     /\ chanBuf'[ch] = IF chanBuf[ch] < ChanCap THEN chanBuf[ch] + 1
                                       ELSE chanBuf[ch]
                     /\ \A h \in StreamIds \ {ch} : chanBuf'[h] = chanBuf[h]
                     /\ subscribers' = subscribers]_vars

\* a call of Notify dropped a notification on a full channel while a channel of
\* the other email had room
C33_Witness ==
    \E g \in Sending :
        /\ gpc[g].drops = 1
        /\ \E h \in StreamIds :
              /\ h \in Registered
              /\ h \notin Subscribed(gpc[g].e)
              /\ chanBuf[h] < ChanCap
              /\ chanBuf[h] > 0

\* the calls in progress
InCall == {g \in Goroutines : gpc[g].at # "idle"}

\* C34: under every interleaving of Subscribe, Unsubscribe and Notify calls no
\* send is made on a closed channel and no channel is closed twice (panicked
\* stays false, also after a second Unsubscribe with the same handle), the
\* channels a Notify still has to send on are open, and while a call is in
\* progress some call can take a step.
C34_NoPanicNoDeadlock ==
    /\ ~panicked
    /\ \A g \in Sending :
          \A j \in gpc[g].i..Len(gpc[g].list) : ~closed[gpc[g].list[j]]
    /\ \A h \in Registered : ~closed[h]
    /\ InCall # {} => ENABLED (\E g \in Goroutines : NotifierStep(g))

\* a second Unsubscribe of a closed channel holds the lock while a Notify waits
\* for it
C34_Witness ==
    \E g, g2 \in Goroutines :
        /\ gpc[g].op = "Unsubscribe"
        /\ gpc[g].at = "locked"
        /\ closed[gpc[g].ch]
        /\ gpc[g2].op = "Notify"
        /\ gpc[g2].at = "lock"
        /\ gpc[g2].e = gpc[g].e

\* the list without the channel ch, the others in their order
Without(list, ch) ==
    LET Other(x) == x # ch IN SelectSeq(list, Other)

\* the calls of Unsubscribe that hold the lock
Unsubscribing == {g \in Goroutines : gpc[g].op = "Unsubscribe" /\ gpc[g].at = "locked"}

\* C35: when Unsubscribe(e, h) returns, h is closed and not in e's list, the
\* other subscribers of e are registered in the order they had, and the lists
\* of the other emails are as they were; and in every reachable state no email
\* id maps to an empty subscriber list.
C35_UnsubscribeRemovesAndCloses ==
    /\ [](\A e \in DOMAIN subscribers : subscribers[e] # <<>>)
    /\ [][\A g \in Unsubscribing :
             gpc'[g].at = "idle" =>
                 \A e \in {gpc[g].e}, ch \in {gpc[g].ch} :
                     /\ closed'[ch]
                     /\ ch \notin Registered'
                     /\ Targets(e)' = Without(Targets(e), ch)
                     /\ \A x \in Emails \ {e} : Targets(x)' = Targets(x)
                     /\ \A h \in StreamIds \ {ch} : closed'[h] = closed[h]]_vars

\* of two channels subscribed to one email the first was unsubscribed and
\* closed, the second is still registered; then the second one too, and the
\* email has no bucket
C35_Witness ==
    /\ semail["c1"] # ""
    /\ semail["c1"] = semail["c2"]
    /\ closed["c1"]
    /\ closed["c2"]
    /\ subscribers = <<>>
    /\ \E g \in Goroutines : gpc[g].op = "Notify" /\ gpc[g].at = "send"

-----------------------------------------------------------------------------
(* Claims about the view handler's write and its notification *)

\* TrackEmailView returns in this step of goroutine p
WriteReturns(p) == pc[p] \in {"select", "insert"} /\ pc'[p] = "count"

\* the buffers after one non-blocking send to every subscriber of e
AfterOneSend(e) ==
    [h \in StreamIds |->
        IF (e \in DOMAIN subscribers /\ \E i \in DOMAIN subscribers[e] : subscribers[e][i] = h)
           /\ chanBuf[h] < ChanCap
        THEN chanBuf[h] + 1 ELSE chanBuf[h]]

\* C36: a failed metrics write is followed by no Notify and the handler still
\* answers 200 with the aggregate count; a write that returns nil (row inserted,
\* deduplicated, metrics DB absent) is followed by Notify(email) before the
\* aggregate is read for the response
C36_NotifyIffWriteSucceeds ==
    [][\A p \in Procs :
          /\ WriteReturns(p) =>
                /\ req'[p].outcome \in {"error", "inserted", "dedup", "nometrics"}
                /\ req'[p].outcome = "error" => chanBuf' = chanBuf
                /\ req'[p].outcome # "error" => chanBuf' = AfterOneSend(req[p].email)
                /\ resp'[p].status = 0
          /\ (pc[p] = "select" /\ pc'[p] = "insert") => chanBuf' = chanBuf
          /\ (pc[p] = "count" /\ pc'[p] = "idle") =>
                /\ chanBuf' = chanBuf
                /\ resp'[p].status = 200
                /\ \E mok \in BOOLEAN, wok \in BOOLEAN :
                      resp'[p].views = GetEmailViewCount(req[p].email, mok, wok)]_vars

\* one request's write failed and was answered 200 without a notification, while
\* another one's insert notified the subscriber of the same email
C36_Witness ==
    \E p \in Procs, q \in Procs, h \in StreamIds :
        /\ p # q
        /\ resp[p].status = 200 /\ resp[p].outcome = "error"
        /\ resp[q].status = 200 /\ resp[q].outcome = "inserted"
        /\ resp[p].email = resp[q].email
        /\ h \in Subscribed(resp[p].email)
        /\ chanBuf[h] = 1

-----------------------------------------------------------------------------
(* Claims about following a rewritten link *)

\* the answer on record is the answer to a GET of the i-th anchor's new href
FollowedAnchor(i) ==
    /\ rw.passes = 1
    /\ clickResp.status # 0
    /\ i \in Rewritable(ParseHTML(rw.html))
    /\ LET t == LinkRequest(UnescapeAttr(rw.out[i].href)) IN
        /\ clickResp.email = t.email
        /\ clickResp.index = t.index
        /\ clickResp.url = ParseURL(t.url)

\* C37: a GET of the tracking URL that rewriteEmailLinks wrote for an anchor
\* passes handleLinkClick's parameter checks and is answered 302 with Location
\* equal to the anchor's original href, and the email id and link index recorded
\* are those of the anchor.
C37_LinkRoundTrip ==
    \A i \in 1..Len(rw.html) :
        FollowedAnchor(i) =>
            LET in == ParseHTML(rw.html) IN
                /\ clickResp.status = 302
                /\ clickResp.location = ParseURL(in[i].href)
                /\ clickResp.email = rw.email
                /\ Atoi(clickResp.index) = Cardinality({j \in Rewritable(in) : j < i})
                /\ clickResp.row # NoClickRow =>
                      /\ clickResp.row.email_id = rw.email
                      /\ clickResp.row.link_url = ParseURL(in[i].href)
                      /\ clickResp.row.link_index = Cardinality({j \in Rewritable(in) : j < i})

-----------------------------------------------------------------------------
(* Claims about the live view count *)

\* the sessions that have a view of e on record
Viewers(e) == {r.session_id : r \in {x \in email_views : x.email_id = e}}

\* two rows of one session and one email, inserted at the same time by racing
\* TrackEmailView calls
RacedRows(e) ==
    {pair \in email_views \X email_views :
        /\ pair[1] # pair[2]
        /\ pair[1].email_id = e /\ pair[2].email_id = e
        /\ pair[1].session_id = pair[2].session_id
        /\ pair[1].time = pair[2].time}

\* C38: a session adds at most 1 to an email's live view count, however many
\* rows it has and whenever they were inserted: the metrics count, and the
\* count an answer reports above the warehouse opens, never exceed the number
\* of sessions that viewed the email.
C38_OnePerSession ==
    /\ \A e \in Emails : GetMetricsViewCount(e, TRUE) <= Cardinality(Viewers(e))
    /\ \A p \in Procs :
          resp[p].status = 200 =>
              resp[p].views <= WarehouseOpens[resp[p].email]
                                 + Cardinality(Viewers(resp[p].email))

\* C38 witness: one session has two rows of an email from racing calls, and the
\* answer read after both inserts reports the warehouse opens plus 1
C38_Witness ==
    \E p \in Procs :
        /\ resp[p].status = 200 /\ resp[p].readOK
        /\ RacedRows(resp[p].email) # {}
        /\ Cardinality(Viewers(resp[p].email)) = 1
        /\ resp[p].views = WarehouseOpens[resp[p].email] + 1

-----------------------------------------------------------------------------
(* Claims about a failed build *)

\* C39: when the builder returns an error (or marshalling fails) the step that
\* answers it leaves the cache as it was, entry by entry; an error is answered
\* only by the build of the request itself, and a lookup that finds no live
\* entry for its key goes on to the builder, so a later request for the key
\* builds again and is never answered a stored error.
C39_FailedBuildStoresNothing ==
    [][/\ \A p \in Procs :
            /\ (cpc[p] = "build" /\ cpc'[p] = "idle") =>
                  /\ cresp'[p].err # NilError
                  /\ store' = store
                  /\ nstores' = nstores
            /\ (cresp'[p] # cresp[p] /\ cresp'[p].err # NilError) => cpc[p] = "build"
       /\ nread' = nread + 1 =>
            \E p \in Procs :
                \/ /\ cpc[p] = "idle" /\ cpc'[p] = "build"
                   /\ ~Get(cacheKey(creq'[p].req)).ok
                \/ /\ cpc'[p] = cpc[p]
                   /\ cresp'[p].status \in {200, 304}
                   /\ cresp'[p].err = NilError
                   /\ Get(cacheKey(cresp'[p].req)).ok]_vars

\* C39 witness: a request was answered an error while the cache holds the entry
\* of another key and none for its own
C39_Witness ==
    \E p \in Procs :
        /\ cresp[p].err # NilError
        /\ ~store[cacheKey(cresp[p].req)].present
        /\ \E k \in CacheKeys : store[k].present

-----------------------------------------------------------------------------
(* Claims about the deadline of a stream request *)

\* C40: with the client still connected, every stream handler that has started
\* returns and unsubscribes once the deadline that middleware.Timeout puts on
\* every request has fired: a running handler is always followed by one that
\* has returned with its channel closed and unregistered, a handler whose
\* deadline has fired never goes back to an open context, and a handler that
\* has returned stays so.
C40_StreamEndsAtDeadline ==
    /\ \A h \in StreamIds :
          (spc[h] \in {"snapshot", "loop"})
              ~> (spc[h] = "done" /\ ctxDone[h] /\ closed[h] /\ h \notin Registered)
    /\ [][\A h \in StreamIds :
             /\ ctxDone[h] => ctxDone'[h]
             /\ spc[h] = "done" => spc'[h] = "done"
             /\ (spc[h] # "done" /\ spc'[h] = "done") =>
                   (ctxDone[h] /\ closed'[h] /\ h \notin Registered')]_vars

\* C40 witness: a stream that sent its snapshot and a later update has returned
\* at its deadline, closed and unregistered, while the other one still runs
C40_Witness ==
    /\ spc["c1"] = "done" /\ ctxDone["c1"] /\ closed["c1"]
    /\ sent["c1"] >= 2
    /\ "c1" \notin Registered
    /\ spc["c2"] = "loop" /\ ~ctxDone["c2"]

=============================================================================
